---- MODULE Spec2Model ----
(***************************************************************************)
(* ReferralOS: claim processing, reward ledger and webhook delivery.       *)
(*                                                                         *)
(* The database tables are the shared state.  Every awaited database call  *)
(* of a handler is one atomic step (the connection pool runs each          *)
(* statement in autocommit mode); the SERIALIZABLE claim transaction is a  *)
(* snapshot step followed by one commit-or-abort step, since its writes    *)
(* are invisible to every other session until it commits.                  *)
(***************************************************************************)
EXTENDS Integers, Sequences, FiniteSets, TLC

VARIABLES
  users,              \* table users
  referrals,          \* table referrals
  rewardsLedger,      \* table rewards_ledger
  events,             \* table events
  webhookDeliveries,  \* table webhook_deliveries
  rateLimits,         \* table rate_limits: <<tenantId, key, windowStart>> -> count
  tenants,            \* table tenants: tenantId -> [webhookUrl, referralSettingsJson]
  now,                \* wall clock, in milliseconds
  cpc,                \* claim request p: position in handleClaimReferral
  creq,               \* claim request p: the request (tenant, client ip, body)
  cloc,               \* claim request p: the handler's local variables
  started,            \* number of claim requests started so far
  retries,            \* number of those that re-sent a request answered 500
  responses,          \* the responses returned so far
  pendingEnqueue,     \* un-awaited enqueueWebhookForExistingEvent promises
  ledgerCall,         \* the ledger insert under study: its row, the table before it
  evalCall,           \* the reward evaluation under study: its input and its result
  signCall,           \* the webhook signing under study: the event, the requests sent, the checks
  wpc,                \* dispatcher instance w: position in runWorkerLoop
  wbatch,             \* dispatcher instance w: fetched rows not yet handed to a chunk
  wjobs,              \* dispatcher instance w: processDelivery calls in flight
  isShuttingDown,     \* dispatcher instance w: the shutdown flag
  replays,            \* answers of the replay and test triggers, in order
  posts               \* the HTTP POSTs sent so far: deliveryId -> count

vars == <<users, referrals, rewardsLedger, events, webhookDeliveries, rateLimits,
          tenants, now, cpc, creq, cloc, started, retries, responses,
          pendingEnqueue, ledgerCall, evalCall, signCall, wpc, wbatch, wjobs, isShuttingDown, replays, posts>>

dbVars == <<users, referrals, rewardsLedger, events, webhookDeliveries, rateLimits, tenants>>
claimVars == <<cpc, creq, cloc, started, retries, responses, pendingEnqueue>>
workerVars == <<wpc, wbatch, wjobs, isShuttingDown, replays, posts>>

\* A nullable value is the empty sequence (null) or a one-element sequence.
None == <<>>
Some(x) == <<x>>
IsSome(o) == Len(o) = 1
Get(o) == o[1]

(***************************************************************************)
(* Bounds of the model.                                                    *)
(***************************************************************************)
NumProcs == 2        \* claim requests that may be in flight at once
MaxRequests == 2     \* claim requests started in one behaviour
MaxRetries == 1      \* further requests that repeat one answered 500
NumWorkers == 2      \* dispatcher instances polling the queue
MaxWindows == 1      \* rate-limit windows the clock may enter after the first

Procs == 1..NumProcs
Workers == 1..NumWorkers

Min2(a, b) == IF a <= b THEN a ELSE b

(***************************************************************************)
(* Reward Rule Evaluator (lib/rewards/normalize, lib/rewards/engine).      *)
(* A raw settings object is a function from the keys it holds to JSON      *)
(* values; a JSON value is tagged as a number or as a string.              *)
(***************************************************************************)
DEFAULT_REWARD_RULES ==
  [onboarding_bonus |-> 0, referral_reward_free |-> 100, referral_reward_pro |-> 200,
   referral_reward_power_pro |-> 300, currency |-> "AUD"]

Num(n) == [num |-> TRUE, v |-> n]
Str(s) == [num |-> FALSE, v |-> s]
\* typeof v === "number"
IsNumber(v) == v.num

\* String.prototype.trim on the strings the model uses.
Trim(s) ==
  CASE s = " " -> ""
    [] s = " pro " -> "pro"
    [] s = "pro " -> "pro"
    [] s = "PRO " -> "PRO"
    [] OTHER -> s

\* String.prototype.toLowerCase on the strings the model uses.
ToLowerCase(s) ==
  CASE s = "PRO " -> "pro "
    [] s = "PRO" -> "pro"
    [] s = "PowerPro" -> "powerpro"
    [] OTHER -> s

\* NumberField with one invalid amount making every amount fall back.
NumberField_AllOrNothing(rawRules, k) ==
  IF \A j \in {"onboarding_bonus", "referral_reward_free", "referral_reward_pro",
                "referral_reward_power_pro"} : j \in DOMAIN rawRules /\ IsNumber(rawRules[j])
    THEN rawRules[k].v
    ELSE DEFAULT_REWARD_RULES[k]

NumberField(rawRules, k) ==
  IF k \in DOMAIN rawRules /\ IsNumber(rawRules[k]) THEN rawRules[k].v ELSE DEFAULT_REWARD_RULES[k]

normalizeRewardRules(rawSettings) ==
  IF ~IsSome(rawSettings)
    THEN DEFAULT_REWARD_RULES
    ELSE LET rawRules == Get(rawSettings) IN
         [onboarding_bonus |-> NumberField(rawRules, "onboarding_bonus"),
          referral_reward_free |-> NumberField(rawRules, "referral_reward_free"),
          referral_reward_pro |-> NumberField(rawRules, "referral_reward_pro"),
          referral_reward_power_pro |-> NumberField(rawRules, "referral_reward_power_pro"),
          currency |-> IF "currency" \in DOMAIN rawRules /\ ~IsNumber(rawRules["currency"])
                          /\ Trim(rawRules["currency"].v) # ""
                         THEN rawRules["currency"].v
                         ELSE DEFAULT_REWARD_RULES.currency]

normalizeSubscriptionTier(tier) ==
  IF tier = ""
    THEN "free"
    ELSE LET normalized == Trim(ToLowerCase(tier))
         IN  IF normalized = "pro" THEN "pro"
             ELSE IF normalized = "power_pro" \/ normalized = "powerpro" THEN "power_pro"
             ELSE "free"

\* Faulty variant: every tier is paid the free-tier amount.
getRewardAmountForTier_FreeOnly(rules, tier) == rules.referral_reward_free

getRewardAmountForTier(rules, tier) ==
  CASE tier = "free" -> rules.referral_reward_free
    [] tier = "pro" -> rules.referral_reward_pro
    [] tier = "power_pro" -> rules.referral_reward_power_pro
    [] OTHER -> rules.referral_reward_free

\* The deterministic idempotency keys of the two ledger entries of a referral.
generateReferralEventId(referralId, userId) == <<"ref_reward", referralId, userId>>
generateOnboardingEventId(referralId, userId) == <<"onboard", referralId, userId>>

\* calculateReferrerReward without the check of the amount.
calculateReferrerReward_KeepsZero(input, rules, tier) ==
  Some([userId |-> input.referrerUserId,
        eventId |-> generateReferralEventId(input.referralId, input.referrerUserId),
        source |-> "referral_reward",
        amount |-> getRewardAmountForTier(rules, tier),
        currency |-> rules.currency])

calculateReferrerReward(input, rules, tier) ==
  LET amount == getRewardAmountForTier(rules, tier)
  IN  IF amount <= 0
        THEN None
        ELSE Some([userId |-> input.referrerUserId,
                   eventId |-> generateReferralEventId(input.referralId, input.referrerUserId),
                   source |-> "referral_reward",
                   amount |-> amount,
                   currency |-> rules.currency])

calculateReferredReward(input, rules) ==
  LET amount == rules.onboarding_bonus
  IN  IF amount <= 0
        THEN None
        ELSE Some([userId |-> input.referredUserId,
                   eventId |-> generateOnboardingEventId(input.referralId, input.referredUserId),
                   source |-> "onboarding_bonus",
                   amount |-> amount,
                   currency |-> rules.currency])

calculateRewards(input) ==
  LET rules == normalizeRewardRules(input.tenantRewardSettings)
      tier == normalizeSubscriptionTier(input.referrerTier)
  IN  [referrerReward |-> calculateReferrerReward(input, rules, tier),
       referredReward |-> calculateReferredReward(input, rules)]

(***************************************************************************)
(* The model's universe: tenants, client addresses, external user ids and  *)
(* referral codes.  u1 (pro) and u3 (free) exist in tenant tA before any   *)
(* claim; u2 does not.                                                     *)
(***************************************************************************)
Tenants == {"tA"}
ClientIps == {"ip1"}
ExternalUserIds == {"u1", "u2", "u3"}
ReferralCodes == {"REF123", "CODE3", "NOSUCH"}

\* String.prototype.slice(0, 8) on the strings the model uses.
Slice8(s) ==
  IF Len(s) <= 8 THEN s
  ELSE CASE s = "user_0001a" -> "user_000"
         [] s = "user_0001b" -> "user_000"
         [] OTHER -> s

InitialUsers ==
  {[id |-> 1, tenantId |-> "tA", externalUserId |-> "u1", plan |-> "pro", referralCode |-> "REF123"],
   [id |-> 2, tenantId |-> "tA", externalUserId |-> "u3", plan |-> "free", referralCode |-> "CODE3"]}

\* referral_settings_json values a tenant may be provisioned with.
ScenarioSettings ==
  Some([referral_reward_pro |-> Num(200), onboarding_bonus |-> Num(0), currency |-> Str("AUD")])
BonusSettings ==
  Some([referral_reward_pro |-> Num(150), onboarding_bonus |-> Num(50), currency |-> Str(" ")])
CapSettings ==
  Some([referral_reward_pro |-> Num(0), referral_reward_free |-> Str("many"),
        max_referrals_per_referrer |-> Num(1)])

WebhookUrl == "https://hooks.example/a"

(***************************************************************************)
(* Rows are identified by a fresh id (uuid defaultRandom); rows are never  *)
(* deleted, so the table's size gives one.                                 *)
(***************************************************************************)
FreshId(table) == Cardinality(table) + 1

(***************************************************************************)
(* lib/db-helpers: the reads of the claim path.  A findFirst that matches  *)
(* no row is None.                                                         *)
(***************************************************************************)
FindFirst(rows) == IF rows = {} THEN None ELSE Some(CHOOSE r \in rows : TRUE)

getUserByExternalId(us, tenantId, externalUserId) ==
  FindFirst({u \in us : u.tenantId = tenantId /\ u.externalUserId = externalUserId})

\* Faulty variant: the code is looked up across tenants.
getUserByReferralCode_AnyTenant(us, tenantId, referralCode) ==
  FindFirst({u \in us : u.referralCode = referralCode})

getUserByReferralCode(us, tenantId, referralCode) ==
  FindFirst({u \in us : u.tenantId = tenantId /\ u.referralCode = referralCode})

getUserById(us, userId) == FindFirst({u \in us : u.id = userId})

getReferralByReferredExternalUserId(rs, tenantId, referredExternalUserId) ==
  FindFirst({r \in rs : r.tenantId = tenantId /\ r.referredExternalUserId = referredExternalUserId})

countReferralsByReferrer(rs, tenantId, referrerUserId) ==
  Cardinality({r \in rs : r.tenantId = tenantId /\ r.referrerUserId = referrerUserId})

RECURSIVE SumAmounts(_)
SumAmounts(rows) ==
  IF rows = {} THEN 0
  ELSE LET r == CHOOSE x \in rows : TRUE IN r.amount + SumAmounts(rows \ {r})

\* COALESCE(SUM(amount), 0) over the user's ledger rows.
sumRewardsByUser(ledger, tenantId, userId) ==
  SumAmounts({l \in ledger : l.tenantId = tenantId /\ l.userId = userId})

(***************************************************************************)
(* db/schema: the unique indexes.                                          *)
(***************************************************************************)
\* users_tenant_external_user_idx, users_tenant_referral_code_idx
UsersConflict(us, row) ==
  {u \in us : u.tenantId = row.tenantId
              /\ (u.externalUserId = row.externalUserId \/ u.referralCode = row.referralCode)}

\* Faulty variant: the referrals table without its unique index.
ReferralsConflict_NoIndex(rs, row) == {}

\* referrals_tenant_referred_external_idx
ReferralsConflict(rs, row) ==
  {r \in rs : r.tenantId = row.tenantId /\ r.referredExternalUserId = row.referredExternalUserId}

\* rewards_ledger_tenant_event_user_idx
LedgerConflict(ledger, row) ==
  {l \in ledger : l.tenantId = row.tenantId /\ l.eventId = row.eventId /\ l.userId = row.userId}

\* Faulty variant: a plain insert into a table without the unique index.
LedgerInsert_Always(ledger, row) == ledger \cup {[row EXCEPT !.id = FreshId(ledger)]}

\* insert(rewardsLedger).values(row).onConflictDoNothing()
LedgerInsertIfAbsent(ledger, row) ==
  IF LedgerConflict(ledger, row) # {}
    THEN ledger
    ELSE ledger \cup {[row EXCEPT !.id = FreshId(ledger)]}

(***************************************************************************)
(* lib/rate-limit: fixed one-minute windows, one counter row per           *)
(* (tenant, key, window).                                                  *)
(***************************************************************************)
WINDOW_MS == 60000
CLAIM_PER_IP == 20
CLAIM_PER_USER == 10
INVALID_REF_PER_IP == 5

WindowStart(t) == t - (t % WINDOW_MS)

RateCount(rl, tenantId, key, t) ==
  IF <<tenantId, key, WindowStart(t)>> \in DOMAIN rl THEN rl[<<tenantId, key, WindowStart(t)>>] ELSE 0

\* INSERT ... ON CONFLICT (tenant_id, key, window_start) DO UPDATE SET count = count + amount
RateUpsert(rl, tenantId, key, t, amount) ==
  (<<tenantId, key, WindowStart(t)>> :> (RateCount(rl, tenantId, key, t) + amount)) @@ rl

\* Faulty variant: the retry hint is rounded down.
checkRateLimit_RoundsDown(rl, tenantId, key, limit, t) ==
  LET count == RateCount(rl, tenantId, key, t) + 1
      allowed == count <= limit
      resetAt == (WindowStart(t) + WINDOW_MS) \div 1000
  IN  [allowed |-> allowed,
       retryAfterSeconds |-> IF allowed THEN 0 ELSE (resetAt * 1000 - t) \div 1000,
       table |-> RateUpsert(rl, tenantId, key, t, 1)]

\* Faulty variant: the counter is compared before this call's increment.
checkRateLimit_ComparesBeforeIncrement(rl, tenantId, key, limit, t) ==
  LET count == RateCount(rl, tenantId, key, t)
      allowed == count <= limit
      resetAt == (WindowStart(t) + WINDOW_MS) \div 1000
  IN  [allowed |-> allowed,
       retryAfterSeconds |-> IF allowed THEN 0 ELSE (resetAt * 1000 - t + 999) \div 1000,
       table |-> RateUpsert(rl, tenantId, key, t, 1)]

\* checkRateLimit: the counter after this call's increment decides.
checkRateLimit(rl, tenantId, key, limit, t) ==
  LET count == RateCount(rl, tenantId, key, t) + 1
      allowed == count <= limit
      resetAt == (WindowStart(t) + WINDOW_MS) \div 1000
  IN  [allowed |-> allowed,
       retryAfterSeconds |-> IF allowed THEN 0 ELSE (resetAt * 1000 - t + 999) \div 1000,
       table |-> RateUpsert(rl, tenantId, key, t, 1)]

IpKey(ip) == "claim:ip:" \o ip
UserKey(externalUserId) == "claim:user:" \o externalUserId
InvalidRefKey(ip) == "invalid_ref:ip:" \o ip

\* Counter rows left by earlier traffic of the current window.
IpAtLimit == <<"tA", IpKey("ip1"), 0>> :> CLAIM_PER_IP
UserAtLimit == <<"tA", UserKey("u2"), 0>> :> CLAIM_PER_USER
InvalidRefNearLimit == <<"tA", InvalidRefKey("ip1"), 0>> :> (INVALID_REF_PER_IP - 1)

\* The provisioned states a behaviour may start from: the tenant's settings
\* and webhook URL, and the rate-limit rows of the current window.
InitialConfigs ==
  {[settings |-> None, webhookUrl |-> Some(WebhookUrl), rateLimits |-> <<>>],
   [settings |-> ScenarioSettings, webhookUrl |-> None, rateLimits |-> <<>>],
   [settings |-> BonusSettings, webhookUrl |-> Some(WebhookUrl), rateLimits |-> <<>>],
   [settings |-> CapSettings, webhookUrl |-> None, rateLimits |-> <<>>],
   [settings |-> None, webhookUrl |-> None, rateLimits |-> IpAtLimit],
   [settings |-> None, webhookUrl |-> None, rateLimits |-> UserAtLimit],
   [settings |-> None, webhookUrl |-> None, rateLimits |-> InvalidRefNearLimit]}

(***************************************************************************)
(* POST /api/v1/referrals/claim: handleClaimReferral.                      *)
(***************************************************************************)
MAX_EXTERNAL_USER_ID_LENGTH == 255
MAX_REFERRAL_CODE_LENGTH == 50

LongCode == "REFXXXXXXXXXXXXXXXXXXXXXXXXXXXXXXXXXXXXXXXXXXXXXXXX"

WellFormedRequests ==
  [tenantId : Tenants, ip : ClientIps, json : {TRUE},
   referralCode : ReferralCodes, referredUserId : ExternalUserIds]

MalformedRequests ==
  [tenantId : Tenants, ip : ClientIps, json : {FALSE}, referralCode : {""}, referredUserId : {""}]
  \cup [tenantId : Tenants, ip : ClientIps, json : {TRUE},
        referralCode : {LongCode}, referredUserId : {"u2"}]

ClaimRequests == WellFormedRequests \cup MalformedRequests

\* parseJsonBody, claimReferralSchema.safeParse and the two length limits.
ValidInput(req) ==
  /\ req.json
  /\ Len(req.referralCode) >= 1
  /\ Len(req.referredUserId) >= 1
  /\ Len(req.referredUserId) <= MAX_EXTERNAL_USER_ID_LENGTH
  /\ Len(req.referralCode) <= MAX_REFERRAL_CODE_LENGTH

NoRequest == [tenantId |-> "", ip |-> "", json |-> FALSE, referralCode |-> "", referredUserId |-> ""]

IdleLocals ==
  [referrer |-> None, referredUser |-> None, snapUsers |-> {}, snapReferrals |-> {},
   result |-> None,
   \* history of the request, read only by the properties
   overlapped |-> FALSE, racedSame |-> FALSE, prior201 |-> None, ownerAtStart |-> None,
   referredAtStart |-> FALSE]

Active(p) == cpc[p] # "idle"

\* The earlier first-time success for the same input, if one was returned.
Prior201(req) ==
  LET hits == {r \in responses : r.req = req /\ r.status = 201}
  IN  IF hits = {} THEN None ELSE Some((CHOOSE r \in hits : TRUE).referralId)

OwnerOf(us, tenantId, code) ==
  LET o == getUserByReferralCode(us, tenantId, code)
  IN  IF IsSome(o) THEN Some(Get(o).externalUserId) ELSE None

Response(p, status, code, referralId, referrerReward, referredReward, alreadyProcessed) ==
  [req |-> creq[p], status |-> status, code |-> code, referralId |-> referralId,
   referrerReward |-> referrerReward, referredReward |-> referredReward,
   alreadyProcessed |-> alreadyProcessed,
   retryAfterSeconds |-> 0,
   \* history of the request, read only by the properties
   overlapped |-> cloc[p].overlapped, racedSame |-> cloc[p].racedSame,
   prior201 |-> cloc[p].prior201, ownerAtStart |-> cloc[p].ownerAtStart,
   ownerAtEnd |-> OwnerOf(users, creq[p].tenantId, creq[p].referralCode),
   referredAtStart |-> cloc[p].referredAtStart,
   referredAtEnd |-> getReferralByReferredExternalUserId(
                       referrals, creq[p].tenantId, creq[p].referredUserId)]

errorResponse(p, code, status) == Response(p, status, code, 0, None, None, FALSE)

\* The 429 answer: RATE_LIMITED with details.retryAfterSeconds.
rateLimitedResponse(p, rateLimit) ==
  [errorResponse(p, "RATE_LIMITED", 429) EXCEPT !.retryAfterSeconds = rateLimit.retryAfterSeconds]

\* Return `resp` to the caller; the request is over.
Return(p, resp) ==
  /\ responses' = responses \cup {resp}
  /\ cpc' = [cpc EXCEPT ![p] = "idle"]
  /\ creq' = [creq EXCEPT ![p] = NoRequest]
  /\ cloc' = [cloc EXCEPT ![p] = IdleLocals]

\* withAuth hands the request to handleClaimReferral; the first free
\* handler slot takes it.
BeginClaim(p, req) ==
  /\ cpc[p] = "idle"
  /\ \A q \in Procs : q < p => Active(q)
  /\ cpc' = [cpc EXCEPT ![p] = "ipRateLimit"]
  /\ creq' = [creq EXCEPT ![p] = req]
  /\ cloc' = [q \in Procs |->
               IF q = p
                 THEN [IdleLocals EXCEPT
                         !.overlapped = \E o \in Procs \ {p} : Active(o),
                         !.racedSame = \E o \in Procs \ {p} : Active(o) /\ creq[o] = req,
                         !.prior201 = Prior201(req),
                         !.ownerAtStart = OwnerOf(users, req.tenantId, req.referralCode),
                         !.referredAtStart =
                            IsSome(getReferralByReferredExternalUserId(
                                     referrals, req.tenantId, req.referredUserId))]
                 ELSE IF Active(q)
                   THEN [cloc[q] EXCEPT !.overlapped = TRUE,
                                        !.racedSame = @ \/ creq[q] = req]
                   ELSE cloc[q]]
  /\ UNCHANGED <<dbVars, now, responses, pendingEnqueue, workerVars, ledgerCall, evalCall, signCall>>

\* A caller sends a claim request.
StartClaim(p, req) ==
  /\ started < MaxRequests
  /\ started' = started + 1
  /\ BeginClaim(p, req)
  /\ UNCHANGED retries

\* A caller whose request was answered 500 sends the same request again.
RetryClaim(p, failed) ==
  /\ failed \in responses
  /\ failed.status = 500
  /\ retries < MaxRetries
  /\ retries' = retries + 1
  /\ BeginClaim(p, failed.req)
  /\ UNCHANGED started

\* Lines 74-129: the per-IP rate limit, then the body's shape and lengths.
ClaimIpRateLimit(p) ==
  /\ cpc[p] = "ipRateLimit"
  /\ LET ipRateLimit == checkRateLimit(rateLimits, creq[p].tenantId, IpKey(creq[p].ip),
                                       CLAIM_PER_IP, now)
     IN  /\ rateLimits' = ipRateLimit.table
         /\ IF ~ipRateLimit.allowed
              THEN Return(p, rateLimitedResponse(p, ipRateLimit))
              ELSE IF ~ValidInput(creq[p])
                THEN Return(p, errorResponse(p, "INVALID_REQUEST", 400))
                ELSE /\ cpc' = [cpc EXCEPT ![p] = "userRateLimit"]
                     /\ UNCHANGED <<creq, cloc, responses>>
  /\ UNCHANGED <<users, referrals, rewardsLedger, events, webhookDeliveries, tenants,
                 now, started, retries, pendingEnqueue, workerVars, ledgerCall, evalCall, signCall>>

\* Lines 131-149: the per-referred-user rate limit.
ClaimUserRateLimit(p) ==
  /\ cpc[p] = "userRateLimit"
  /\ LET userRateLimit == checkRateLimit(rateLimits, creq[p].tenantId,
                                         UserKey(creq[p].referredUserId), CLAIM_PER_USER, now)
     IN  /\ rateLimits' = userRateLimit.table
         /\ IF ~userRateLimit.allowed
              THEN Return(p, rateLimitedResponse(p, userRateLimit))
              ELSE /\ cpc' = [cpc EXCEPT ![p] = "existingReferral"]
                   /\ UNCHANGED <<creq, cloc, responses>>
  /\ UNCHANGED <<users, referrals, rewardsLedger, events, webhookDeliveries, tenants,
                 now, started, retries, pendingEnqueue, workerVars, ledgerCall, evalCall, signCall>>

\* The success response of an idempotent replay (lines 161-179 and 373-391).
replayResponse(p, referral) ==
  Response(p, 200, "OK", referral.id, None, None, TRUE)

\* Faulty variant: the lookup never finds the referral.
ExistingReferral_Blind(p) == None

\* Faulty variant: the referral is found only under the code it was claimed with.
ExistingReferral_SameCodeOnly(p) ==
  FindFirst({r \in referrals : r.tenantId = creq[p].tenantId
                               /\ r.referredExternalUserId = creq[p].referredUserId
                               /\ r.refCodeUsed = creq[p].referralCode})

\* The referral the idempotency short-circuit finds (lines 151-154).
ExistingReferral(p) ==
  getReferralByReferredExternalUserId(referrals, creq[p].tenantId, creq[p].referredUserId)

\* Lines 151-180: the idempotency short-circuit, a read outside any transaction.
ClaimShortCircuit(p) ==
  /\ cpc[p] = "existingReferral"
  /\ LET existingReferral == ExistingReferral(p)
     IN  IF IsSome(existingReferral)
           THEN Return(p, replayResponse(p, Get(existingReferral)))
           ELSE /\ cpc' = [cpc EXCEPT ![p] = "referrer"]
                /\ UNCHANGED <<creq, cloc, responses>>
  /\ UNCHANGED <<dbVars, now, started, retries, pendingEnqueue, workerVars, ledgerCall, evalCall, signCall>>

\* Faulty variant: an unknown code falls back to the tenant's first user.
Referrer_Fallback(p) ==
  LET found == getUserByReferralCode(users, creq[p].tenantId, creq[p].referralCode)
  IN  IF IsSome(found) THEN found ELSE getUserById(users, 1)

\* The user row holding the request's referral code (line 182).
Referrer(p) == getUserByReferralCode(users, creq[p].tenantId, creq[p].referralCode)

\* Faulty variant: the self-referral check is missing.
IsSelfReferral_Never(referrer, req) == FALSE

\* referrer.externalUserId === referredUserId (line 211).
IsSelfReferral(referrer, req) == referrer.externalUserId = req.referredUserId

\* Lines 182-218: resolve the referrer by code; self-referral check.
ClaimFindReferrer(p) ==
  /\ cpc[p] = "referrer"
  /\ LET referrer == Referrer(p)
     IN  IF ~IsSome(referrer)
           THEN /\ cpc' = [cpc EXCEPT ![p] = "invalidRef"]
                /\ UNCHANGED <<creq, cloc, responses>>
           ELSE IF IsSelfReferral(Get(referrer), creq[p])
             THEN Return(p, errorResponse(p, "SELF_REFERRAL", 400))
             ELSE /\ cpc' = [cpc EXCEPT ![p] = "cap"]
                  /\ cloc' = [cloc EXCEPT ![p].referrer = referrer]
                  /\ UNCHANGED <<creq, responses>>
  /\ UNCHANGED <<dbVars, now, started, retries, pendingEnqueue, workerVars, ledgerCall, evalCall, signCall>>

\* Lines 184-209: the code matches no user.  incrementRateLimitKey is not
\* awaited, so its upsert and checkRateLimit's run in either order: the check
\* sees the counter after one or after both increments.
ClaimInvalidRef(p) ==
  /\ cpc[p] = "invalidRef"
  /\ LET key == InvalidRefKey(creq[p].ip)
         first == checkRateLimit(rateLimits, creq[p].tenantId, key, INVALID_REF_PER_IP, now)
         second == checkRateLimit(RateUpsert(rateLimits, creq[p].tenantId, key, now, 1),
                                  creq[p].tenantId, key, INVALID_REF_PER_IP, now)
     IN  /\ rateLimits' = second.table
         /\ \E invalidRefLimit \in {first, second} :
              IF ~invalidRefLimit.allowed
                THEN Return(p, rateLimitedResponse(p, invalidRefLimit))
                ELSE Return(p, errorResponse(p, "REFERRAL_CODE_NOT_FOUND", 404))
  /\ UNCHANGED <<users, referrals, rewardsLedger, events, webhookDeliveries, tenants,
                 now, started, retries, pendingEnqueue, workerVars, ledgerCall, evalCall, signCall>>

\* referralSettings?.max_referrals_per_referrer (lines 222-223); 0 when unset.
MaxReferralsPerReferrer(tenantId) ==
  LET settings == tenants[tenantId].referralSettingsJson
  IN  IF IsSome(settings) /\ "max_referrals_per_referrer" \in DOMAIN Get(settings)
         /\ IsNumber(Get(settings)["max_referrals_per_referrer"])
        THEN Get(settings)["max_referrals_per_referrer"].v
        ELSE 0

\* Lines 220-246: the optional per-referrer cap, a count query.
ClaimCap(p) ==
  /\ cpc[p] = "cap"
  /\ LET maxReferralsPerReferrer == MaxReferralsPerReferrer(creq[p].tenantId)
         currentCount == countReferralsByReferrer(referrals, creq[p].tenantId,
                                                  Get(cloc[p].referrer).id)
     IN  IF maxReferralsPerReferrer > 0 /\ currentCount >= maxReferralsPerReferrer
           THEN Return(p, errorResponse(p, "REFERRAL_CAP_REACHED", 400))
           ELSE /\ cpc' = [cpc EXCEPT ![p] = "referredUser"]
                /\ UNCHANGED <<creq, cloc, responses>>
  /\ UNCHANGED <<dbVars, now, started, retries, pendingEnqueue, workerVars, ledgerCall, evalCall, signCall>>

\* Line 248: read the referred user's row, outside the transaction.
ClaimGetReferredUser(p) ==
  /\ cpc[p] = "referredUser"
  /\ cpc' = [cpc EXCEPT ![p] = "doubleCheck"]
  /\ cloc' = [cloc EXCEPT ![p].referredUser =
                 getUserByExternalId(users, creq[p].tenantId, creq[p].referredUserId)]
  /\ UNCHANGED <<dbVars, now, creq, started, retries, responses, pendingEnqueue, workerVars, ledgerCall, evalCall, signCall>>

\* Lines 250-260: the transaction's first statement takes its snapshot and
\* re-checks for an existing referral.
ClaimDoubleCheck(p) ==
  /\ cpc[p] = "doubleCheck"
  /\ LET doubleCheck == ExistingReferral(p)
     IN  IF IsSome(doubleCheck)
           THEN Return(p, replayResponse(p, Get(doubleCheck)))
           ELSE /\ cpc' = [cpc EXCEPT ![p] = "transaction"]
                /\ cloc' = [cloc EXCEPT ![p].snapUsers = users, ![p].snapReferrals = referrals]
                /\ UNCHANGED <<creq, responses>>
  /\ UNCHANGED <<dbVars, now, started, retries, pendingEnqueue, workerVars, ledgerCall, evalCall, signCall>>

\* The user row the transaction inserts for a referred user it has no row of.
PendingUserRow(p) ==
  [id |-> FreshId(users), tenantId |-> creq[p].tenantId,
   externalUserId |-> creq[p].referredUserId, plan |-> "free",
   referralCode |-> "ref_pending_" \o Slice8(creq[p].referredUserId)]

\* Lines 262-288: create-or-fetch of the referred user.  The outcome is
\* "ok" with the row, "missing" when the insert did nothing and the re-read
\* finds no row, or "conflict" when the insert meets a row committed after
\* the transaction's snapshot (a serialization failure).
CreateOrFetchReferredUser(p) ==
  IF IsSome(cloc[p].referredUser)
    THEN [outcome |-> "ok", user |-> cloc[p].referredUser, inserted |-> FALSE]
    ELSE LET conflicts == UsersConflict(users, PendingUserRow(p))
             existingUser == getUserByExternalId(cloc[p].snapUsers, creq[p].tenantId,
                                                 creq[p].referredUserId)
         IN  IF conflicts = {}
               THEN [outcome |-> "ok", user |-> Some(PendingUserRow(p)), inserted |-> TRUE]
               ELSE IF ~(conflicts \subseteq cloc[p].snapUsers)
                 THEN [outcome |-> "conflict", user |-> None, inserted |-> FALSE]
                 ELSE IF IsSome(existingUser)
                   THEN [outcome |-> "ok", user |-> existingUser, inserted |-> FALSE]
                   ELSE [outcome |-> "missing", user |-> None, inserted |-> FALSE]

\* The referral row the transaction inserts (lines 294-305).
NewReferralRow(p, referredUser) ==
  [id |-> FreshId(referrals), tenantId |-> creq[p].tenantId,
   referrerUserId |-> Get(cloc[p].referrer).id,
   referredExternalUserId |-> creq[p].referredUserId,
   referredUserId |-> referredUser.id,
   refCodeUsed |-> creq[p].referralCode, status |-> "completed"]

\* The unique index on (tenant, referred external id) rejects the insert.
ReferralInsertRejected(p, row) == ReferralsConflict(referrals, row) # {}

LedgerRow(tenantId, reward) ==
  [id |-> 0, tenantId |-> tenantId, userId |-> reward.userId, source |-> reward.source,
   eventId |-> reward.eventId, amount |-> reward.amount, currency |-> reward.currency]

\* Faulty variant: the referred user's bonus is returned but never written.
InsertRewards_ReferrerOnly(ledger, tenantId, rewardCalc) ==
  IF IsSome(rewardCalc.referrerReward)
    THEN LedgerInsertIfAbsent(ledger, LedgerRow(tenantId, Get(rewardCalc.referrerReward)))
    ELSE ledger

\* Lines 317-341: up to two ledger inserts, each onConflictDoNothing.
InsertRewards(ledger, tenantId, rewardCalc) ==
  LET afterReferrer ==
        IF IsSome(rewardCalc.referrerReward)
          THEN LedgerInsertIfAbsent(ledger, LedgerRow(tenantId, Get(rewardCalc.referrerReward)))
          ELSE ledger
  IN  IF IsSome(rewardCalc.referredReward)
        THEN LedgerInsertIfAbsent(afterReferrer, LedgerRow(tenantId, Get(rewardCalc.referredReward)))
        ELSE afterReferrer

RewardJson(reward) ==
  IF IsSome(reward) THEN Some([amount |-> Get(reward).amount, currency |-> Get(reward).currency])
  ELSE None

\* Lines 262-366 when every statement succeeds: the transaction commits the
\* referred user (if new), the referral, the ledger entries and the event.
ClaimTxCommit(p) ==
  /\ cpc[p] = "transaction"
  /\ LET fetched == CreateOrFetchReferredUser(p)
     IN  /\ fetched.outcome = "ok"
         /\ LET referredUser == Get(fetched.user)
                newReferral == NewReferralRow(p, referredUser)
                referrer == Get(cloc[p].referrer)
                rewardCalc == calculateRewards(
                  [referralId |-> newReferral.id, referrerUserId |-> referrer.id,
                   referrerTier |-> referrer.plan, referredUserId |-> referredUser.id,
                   tenantRewardSettings |-> tenants[creq[p].tenantId].referralSettingsJson])
                claimEvent ==
                  [id |-> FreshId(events), tenantId |-> creq[p].tenantId,
                   type |-> "referral.claimed",
                   payload |-> [referralId |-> newReferral.id,
                                referrerUserId |-> referrer.externalUserId,
                                referredUserId |-> creq[p].referredUserId,
                                referralCode |-> creq[p].referralCode,
                                referrer |-> RewardJson(rewardCalc.referrerReward),
                                referred |-> RewardJson(rewardCalc.referredReward)]]
            IN  /\ ~ReferralInsertRejected(p, newReferral)
                /\ users' = IF fetched.inserted THEN users \cup {referredUser} ELSE users
                /\ referrals' = referrals \cup {newReferral}
                /\ rewardsLedger' = InsertRewards(rewardsLedger, creq[p].tenantId, rewardCalc)
                /\ events' = events \cup {claimEvent}
                /\ cloc' = [cloc EXCEPT ![p].result =
                              Some([referral |-> newReferral, rewards |-> rewardCalc,
                                    eventId |-> claimEvent.id])]
                /\ cpc' = [cpc EXCEPT ![p] = "committed"]
  /\ UNCHANGED <<webhookDeliveries, rateLimits, tenants, now, creq, started, retries,
                 responses, pendingEnqueue, workerVars, ledgerCall, evalCall, signCall>>

\* ClaimTxThrow with the enqueue started inside the transaction, before the
\* commit.
ClaimTxThrow_EnqueuesFirst(p) ==
  /\ cpc[p] = "transaction"
  /\ LET fetched == CreateOrFetchReferredUser(p)
     IN  \/ fetched.outcome # "ok"
         \/ /\ fetched.outcome = "ok"
            /\ ReferralInsertRejected(p, NewReferralRow(p, Get(fetched.user)))
  /\ pendingEnqueue' = pendingEnqueue \cup
                         {[tenantId |-> creq[p].tenantId, eventId |-> FreshId(events)]}
  /\ Return(p, errorResponse(p, "INTERNAL", 500))
  /\ UNCHANGED <<dbVars, now, started, retries, workerVars, ledgerCall, evalCall, signCall>>

\* Lines 262-305 when a statement fails: the re-read finds no user row
\* ("Failed to create or find referred user"), or an insert meets a row a
\* concurrent transaction committed.  The transaction rolls back, the error
\* reaches withAuth (lib/request), which answers 500 INTERNAL.
ClaimTxThrow(p) ==
  /\ cpc[p] = "transaction"
  /\ LET fetched == CreateOrFetchReferredUser(p)
     IN  \/ fetched.outcome # "ok"
         \/ /\ fetched.outcome = "ok"
            /\ ReferralInsertRejected(p, NewReferralRow(p, Get(fetched.user)))
  /\ Return(p, errorResponse(p, "INTERNAL", 500))
  /\ UNCHANGED <<dbVars, now, started, retries, pendingEnqueue, workerVars, ledgerCall, evalCall, signCall>>

\* ClaimTxSerializationFailure with the referral insert surviving the abort.
ClaimTxSerializationFailure_KeepsReferral(p) ==
  /\ cpc[p] = "transaction"
  /\ users # cloc[p].snapUsers \/ referrals # cloc[p].snapReferrals
  /\ referrals' = referrals \cup {NewReferralRow(p, [id |-> 0])}
  /\ Return(p, errorResponse(p, "INTERNAL", 500))
  /\ UNCHANGED <<users, rewardsLedger, events, webhookDeliveries, rateLimits, tenants, now,
                 started, retries, pendingEnqueue, workerVars, ledgerCall, evalCall, signCall>>

\* ClaimTxSerializationFailure answered as if the claim had been created.
ClaimTxSerializationFailure_AnswersCreated(p) ==
  /\ cpc[p] = "transaction"
  /\ users # cloc[p].snapUsers \/ referrals # cloc[p].snapReferrals
  /\ Return(p, Response(p, 201, "OK", FreshId(referrals), None, None, FALSE))
  /\ UNCHANGED <<dbVars, now, started, retries, pendingEnqueue, workerVars, ledgerCall, evalCall, signCall>>

\* SERIALIZABLE: the database may abort the transaction with a
\* serialization failure when a concurrent transaction committed writes to
\* the tables it read (predicate locks are held on pages or whole relations).
ClaimTxSerializationFailure(p) ==
  /\ cpc[p] = "transaction"
  /\ users # cloc[p].snapUsers \/ referrals # cloc[p].snapReferrals
  /\ Return(p, errorResponse(p, "INTERNAL", 500))
  /\ UNCHANGED <<dbVars, now, started, retries, pendingEnqueue, workerVars, ledgerCall, evalCall, signCall>>

\* Lines 394-427: start the webhook enqueue without awaiting it and return
\* the first-time success.
ClaimRespondCreated(p) ==
  /\ cpc[p] = "committed"
  /\ LET result == Get(cloc[p].result)
     IN  /\ pendingEnqueue' = pendingEnqueue \cup
                                {[tenantId |-> creq[p].tenantId, eventId |-> result.eventId]}
         /\ Return(p, Response(p, 201, "OK", result.referral.id,
                               RewardJson(result.rewards.referrerReward),
                               RewardJson(result.rewards.referredReward), FALSE))
  /\ UNCHANGED <<dbVars, now, started, retries, workerVars, ledgerCall, evalCall, signCall>>

(***************************************************************************)
(* lib/webhooks/enqueue.                                                   *)
(***************************************************************************)
NewDeliveryRow(tenantId, eventId, url) ==
  [id |-> FreshId(webhookDeliveries), tenantId |-> tenantId, eventId |-> eventId, url |-> url,
   status |-> "pending", attemptCount |-> 0, lastAttemptAt |-> None,
   nextAttemptAt |-> Some(now), lastError |-> None]

\* EnqueueWebhook that writes a row whether the tenant has a webhook URL or not.
EnqueueWebhook_IgnoresMissingUrl(e) ==
  /\ e \in pendingEnqueue
  /\ pendingEnqueue' = pendingEnqueue \ {e}
  /\ webhookDeliveries' =
       webhookDeliveries \cup {NewDeliveryRow(e.tenantId, e.eventId, WebhookUrl)}
  /\ UNCHANGED <<users, referrals, rewardsLedger, events, rateLimits, tenants, now,
                 cpc, creq, cloc, started, retries, responses, workerVars, ledgerCall, evalCall, signCall>>

\* enqueueWebhookForExistingEvent: nothing without a webhook URL, else one
\* pending delivery row due now.
EnqueueWebhook(e) ==
  /\ e \in pendingEnqueue
  /\ pendingEnqueue' = pendingEnqueue \ {e}
  /\ LET webhookUrl == tenants[e.tenantId].webhookUrl
     IN  webhookDeliveries' =
           IF IsSome(webhookUrl)
             THEN webhookDeliveries \cup {NewDeliveryRow(e.tenantId, e.eventId, Get(webhookUrl))}
             ELSE webhookDeliveries
  /\ UNCHANGED <<users, referrals, rewardsLedger, events, rateLimits, tenants, now,
                 cpc, creq, cloc, started, retries, responses, workerVars, ledgerCall, evalCall, signCall>>

\* Line 395: a database call of the enqueue rejects; the handler's empty
\* catch swallows the error and no delivery row is written.
EnqueueWebhookFails(e) ==
  /\ e \in pendingEnqueue
  /\ pendingEnqueue' = pendingEnqueue \ {e}
  /\ UNCHANGED <<dbVars, now, cpc, creq, cloc, started, retries, responses, workerVars,
                 ledgerCall, evalCall, signCall>>

\* The clock enters the next one-minute rate-limit window.
NextWindow ==
  /\ now + WINDOW_MS <= MaxWindows * WINDOW_MS
  /\ now' = WindowStart(now) + WINDOW_MS
  /\ UNCHANGED <<dbVars, claimVars, workerVars, ledgerCall, evalCall, signCall>>

Init ==
  /\ users = InitialUsers
  /\ referrals = {}
  /\ rewardsLedger = {}
  /\ events = {}
  /\ webhookDeliveries = {}
  /\ \E c \in InitialConfigs :
       /\ rateLimits = c.rateLimits
       /\ tenants = [t \in Tenants |-> [webhookUrl |-> c.webhookUrl,
                                        referralSettingsJson |-> c.settings]]
  /\ now = 0
  /\ cpc = [p \in Procs |-> "idle"]
  /\ creq = [p \in Procs |-> NoRequest]
  /\ cloc = [p \in Procs |-> IdleLocals]
  /\ started = 0
  /\ retries = 0
  /\ responses = {}
  /\ pendingEnqueue = {}
  /\ ledgerCall = None
  /\ evalCall = None
  /\ signCall = None
  /\ wpc = [w \in Workers |-> "poll"]
  /\ wbatch = [w \in Workers |-> {}]
  /\ wjobs = [w \in Workers |-> {}]
  /\ isShuttingDown = [w \in Workers |-> FALSE]
  /\ replays = <<>>
  /\ posts = <<>>

Next ==
  \/ \E p \in Procs, req \in ClaimRequests : StartClaim(p, req)
  \/ \E p \in Procs, failed \in responses : RetryClaim(p, failed)
  \/ \E p \in Procs : ClaimIpRateLimit(p)
  \/ \E p \in Procs : ClaimUserRateLimit(p)
  \/ \E p \in Procs : ClaimShortCircuit(p)
  \/ \E p \in Procs : ClaimFindReferrer(p)
  \/ \E p \in Procs : ClaimInvalidRef(p)
  \/ \E p \in Procs : ClaimCap(p)
  \/ \E p \in Procs : ClaimGetReferredUser(p)
  \/ \E p \in Procs : ClaimDoubleCheck(p)
  \/ \E p \in Procs : ClaimTxCommit(p)
  \/ \E p \in Procs : ClaimTxThrow(p)
  \/ \E p \in Procs : ClaimTxSerializationFailure(p)
  \/ \E p \in Procs : ClaimRespondCreated(p)
  \/ \E e \in pendingEnqueue : EnqueueWebhook(e)
  \/ \E e \in pendingEnqueue : EnqueueWebhookFails(e)
  \/ NextWindow

Spec == Init /\ [][Next]_vars

(***************************************************************************)
(* The claim handler under rate-limit pressure: the counters of the        *)
(* current window stand at their limits and the request arrives at any     *)
(* moment of the window.                                                   *)
(***************************************************************************)
ClockChoices == {0, 1, 999, 1000, 30500, 59001, 59999}

IpBelowLimit == <<"tA", IpKey("ip1"), 0>> :> (CLAIM_PER_IP - 1)

RateLimitConfigs == {IpAtLimit, UserAtLimit, IpBelowLimit}

InitRateLimit ==
  /\ users = InitialUsers
  /\ referrals = {}
  /\ rewardsLedger = {}
  /\ events = {}
  /\ webhookDeliveries = {}
  /\ rateLimits \in RateLimitConfigs
  /\ tenants = [t \in Tenants |-> [webhookUrl |-> Some(WebhookUrl), referralSettingsJson |-> None]]
  /\ now \in ClockChoices
  /\ cpc = [p \in Procs |-> "idle"]
  /\ creq = [p \in Procs |-> NoRequest]
  /\ cloc = [p \in Procs |-> IdleLocals]
  /\ started = 0
  /\ retries = 0
  /\ responses = {}
  /\ pendingEnqueue = {}
  /\ ledgerCall = None
  /\ evalCall = None
  /\ signCall = None
  /\ wpc = [w \in Workers |-> "poll"]
  /\ wbatch = [w \in Workers |-> {}]
  /\ wjobs = [w \in Workers |-> {}]
  /\ isShuttingDown = [w \in Workers |-> FALSE]
  /\ replays = <<>>
  /\ posts = <<>>

SpecRateLimit == InitRateLimit /\ [][Next]_vars

(***************************************************************************)
(* The claim handler with a failing counter store: the upsert of a         *)
(* rate-limit call may reject, whatever the counters hold.                 *)
(***************************************************************************)
\* Faulty variant: a failing counter store refuses the request.
checkRateLimitStoreFails_Closed(rl, limit) ==
  [allowed |-> FALSE, retryAfterSeconds |-> 60, table |-> rl]

\* part_025 lines 220-227: the catch of checkRateLimit; nothing was written.
checkRateLimitStoreFails(rl, limit) ==
  [allowed |-> TRUE, retryAfterSeconds |-> 0, table |-> rl]

\* Lines 74-129 with the upsert of the per-IP check rejecting.
ClaimIpRateLimitStoreFails(p) ==
  /\ cpc[p] = "ipRateLimit"
  /\ LET ipRateLimit == checkRateLimitStoreFails(rateLimits, CLAIM_PER_IP)
     IN  /\ rateLimits' = ipRateLimit.table
         /\ IF ~ipRateLimit.allowed
              THEN Return(p, rateLimitedResponse(p, ipRateLimit))
              ELSE IF ~ValidInput(creq[p])
                THEN Return(p, errorResponse(p, "INVALID_REQUEST", 400))
                ELSE /\ cpc' = [cpc EXCEPT ![p] = "userRateLimit"]
                     /\ UNCHANGED <<creq, cloc, responses>>
  /\ UNCHANGED <<users, referrals, rewardsLedger, events, webhookDeliveries, tenants,
                 now, started, retries, pendingEnqueue, workerVars, ledgerCall, evalCall, signCall>>

\* Lines 131-149 with the upsert of the per-user check rejecting.
ClaimUserRateLimitStoreFails(p) ==
  /\ cpc[p] = "userRateLimit"
  /\ LET userRateLimit == checkRateLimitStoreFails(rateLimits, CLAIM_PER_USER)
     IN  /\ rateLimits' = userRateLimit.table
         /\ IF ~userRateLimit.allowed
              THEN Return(p, rateLimitedResponse(p, userRateLimit))
              ELSE /\ cpc' = [cpc EXCEPT ![p] = "existingReferral"]
                   /\ UNCHANGED <<creq, cloc, responses>>
  /\ UNCHANGED <<users, referrals, rewardsLedger, events, webhookDeliveries, tenants,
                 now, started, retries, pendingEnqueue, workerVars, ledgerCall, evalCall, signCall>>

\* Lines 184-209 with both upserts on the invalid-code counter rejecting:
\* incrementRateLimitKey logs its error, checkRateLimit fails open.
ClaimInvalidRefStoreFails(p) ==
  /\ cpc[p] = "invalidRef"
  /\ LET invalidRefLimit == checkRateLimitStoreFails(rateLimits, INVALID_REF_PER_IP)
     IN  /\ rateLimits' = invalidRefLimit.table
         /\ IF ~invalidRefLimit.allowed
              THEN Return(p, rateLimitedResponse(p, invalidRefLimit))
              ELSE Return(p, errorResponse(p, "REFERRAL_CODE_NOT_FOUND", 404))
  /\ UNCHANGED <<users, referrals, rewardsLedger, events, webhookDeliveries, tenants,
                 now, started, retries, pendingEnqueue, workerVars, ledgerCall, evalCall, signCall>>

NextStoreFaulty ==
  \/ Next
  \/ \E p \in Procs : ClaimIpRateLimitStoreFails(p)
  \/ \E p \in Procs : ClaimUserRateLimitStoreFails(p)
  \/ \E p \in Procs : ClaimInvalidRefStoreFails(p)

\* The request arrives at the start of the window.
InitStoreFaulty == InitRateLimit /\ now = 0

SpecStoreFaulty == InitStoreFaulty /\ [][NextStoreFaulty]_vars

(***************************************************************************)
(* Webhook worker (execution/webhook-worker): runWorkerLoop of each        *)
(* dispatcher instance.  Every instance is its own process with its own    *)
(* isShuttingDown flag; all of them poll the same webhook_deliveries       *)
(* table through the connection pool, one autocommit statement at a time.  *)
(***************************************************************************)
WEBHOOK_RETRY_LIMIT == 6
BATCH_SIZE == 2      \* WEBHOOK_WORKER_BATCH_SIZE of the deployment
CONCURRENCY == 1     \* WEBHOOK_WORKER_CONCURRENCY of the deployment
MaxReplays == 1      \* replay and test requests served in one behaviour
MaxPosts == 3        \* HTTP POSTs sent in one behaviour

RETRY_DELAYS_MS == <<0, 10000, 60000, 300000, 1800000, 7200000>>

getNextAttemptDelay(attemptCount) ==
  IF attemptCount >= Len(RETRY_DELAYS_MS)
    THEN RETRY_DELAYS_MS[Len(RETRY_DELAYS_MS)]
    ELSE RETRY_DELAYS_MS[attemptCount + 1]

\* The columns fetchDueDeliveries selects.
DeliveryRecord(d) ==
  [id |-> d.id, tenantId |-> d.tenantId, eventId |-> d.eventId, url |-> d.url,
   status |-> d.status, attemptCount |-> d.attemptCount]

\* status = 'pending' AND next_attempt_at <= now
DueDeliveries ==
  {d \in webhookDeliveries :
     d.status = "pending" /\ IsSome(d.nextAttemptAt) /\ Get(d.nextAttemptAt) <= now}

PostCount(deliveryId) == IF deliveryId \in DOMAIN posts THEN posts[deliveryId] ELSE 0

RECURSIVE SumPosts(_)
SumPosts(ids) ==
  IF ids = {} THEN 0
  ELSE LET id == CHOOSE x \in ids : TRUE IN posts[id] + SumPosts(ids \ {id})

TotalPosts == SumPosts(DOMAIN posts)

\* UpdateDelivery that leaves next_attempt_at as it was.
UpdateDelivery_KeepsNextAttempt(deliveryId, status, attemptCount, lastError, nextAttemptAt) ==
  {IF d.id = deliveryId
     THEN [d EXCEPT !.status = status, !.attemptCount = attemptCount,
                    !.lastAttemptAt = Some(now), !.lastError = lastError]
     ELSE d : d \in webhookDeliveries}

\* update(webhookDeliveries).set(fields).where(id = deliveryId)
UpdateDelivery(deliveryId, status, attemptCount, lastError, nextAttemptAt) ==
  {IF d.id = deliveryId
     THEN [d EXCEPT !.status = status, !.attemptCount = attemptCount,
                    !.lastAttemptAt = Some(now), !.lastError = lastError,
                    !.nextAttemptAt = nextAttemptAt]
     ELSE d : d \in webhookDeliveries}

\* Lines 66-89 and 294-308: one poll.  The SELECT ... FOR UPDATE SKIP LOCKED
\* is a statement of its own, outside any transaction: its row locks end
\* with it, so no row is locked when another statement runs.  LIMIT without
\* ORDER BY returns any BATCH_SIZE of the due rows.
FetchDueDeliveries(w) ==
  /\ wpc[w] = "poll"
  /\ ~isShuttingDown[w]
  /\ \E deliveries \in SUBSET DueDeliveries :
       /\ Cardinality(deliveries) = Min2(BATCH_SIZE, Cardinality(DueDeliveries))
       /\ wbatch' = [wbatch EXCEPT ![w] = {DeliveryRecord(d) : d \in deliveries}]
       /\ wpc' = [wpc EXCEPT ![w] = IF deliveries = {} THEN "sleep" ELSE "process"]
  /\ UNCHANGED <<dbVars, now, claimVars, ledgerCall, evalCall, signCall, wjobs, isShuttingDown, replays, posts>>

\* Lines 249-266: the next chunk of at most CONCURRENCY rows starts, unless
\* shutdown was requested, which drops the rest of the batch.
StartChunk(w) ==
  /\ wpc[w] = "process"
  /\ wjobs[w] = {}
  /\ wbatch[w] # {}
  /\ IF isShuttingDown[w]
       THEN /\ wbatch' = [wbatch EXCEPT ![w] = {}]
            /\ UNCHANGED wjobs
       ELSE \E chunk \in SUBSET wbatch[w] :
              /\ Cardinality(chunk) = Min2(CONCURRENCY, Cardinality(wbatch[w]))
              /\ wbatch' = [wbatch EXCEPT ![w] = @ \ chunk]
              /\ wjobs' = [wjobs EXCEPT ![w] =
                             {[delivery |-> d, pc |-> "event", success |-> FALSE] : d \in chunk}]
  /\ UNCHANGED <<dbVars, now, claimVars, ledgerCall, evalCall, signCall, wpc, isShuttingDown, replays, posts>>

\* Lines 100-117: processDelivery reads the event; without one the row is
\* marked failed and the call is over.
JobLookupEvent(w, job) ==
  /\ job \in wjobs[w]
  /\ job.pc = "event"
  /\ LET event == FindFirst({e \in events : e.tenantId = job.delivery.tenantId
                                            /\ e.id = job.delivery.eventId})
     IN  IF IsSome(event)
           THEN /\ wjobs' = [wjobs EXCEPT ![w] = (@ \ {job}) \cup {[job EXCEPT !.pc = "fetch"]}]
                /\ UNCHANGED webhookDeliveries
           ELSE /\ wjobs' = [wjobs EXCEPT ![w] = @ \ {job}]
                /\ webhookDeliveries' =
                     {IF d.id = job.delivery.id
                        THEN [d EXCEPT !.status = "failed", !.lastError = Some("Event not found"),
                                       !.lastAttemptAt = Some(now), !.nextAttemptAt = None]
                        ELSE d : d \in webhookDeliveries}
  /\ UNCHANGED <<users, referrals, rewardsLedger, events, rateLimits, tenants, now, claimVars,
                 ledgerCall, evalCall, signCall, wpc, wbatch, isShuttingDown, replays, posts>>

\* Lines 132-161: the HTTP POST; the receiver answers 2xx (ok) or the
\* attempt fails (another status, a network error, the timeout).
JobPost(w, job, ok) ==
  /\ job \in wjobs[w]
  /\ job.pc = "fetch"
  /\ TotalPosts < MaxPosts
  /\ posts' = (job.delivery.id :> (PostCount(job.delivery.id) + 1)) @@ posts
  /\ wjobs' = [wjobs EXCEPT ![w] =
                 (@ \ {job}) \cup {[job EXCEPT !.pc = "update", !.success = ok]}]
  /\ UNCHANGED <<dbVars, now, claimVars, ledgerCall, evalCall, signCall, wpc, wbatch, isShuttingDown, replays>>

\* JobRecordOutcome without the ceiling: a failed attempt always leaves the
\* row pending with a next attempt.
JobRecordOutcome_NeverGivesUp(w, job) ==
  /\ job \in wjobs[w]
  /\ job.pc = "update"
  /\ LET newAttemptCount == job.delivery.attemptCount + 1
     IN  webhookDeliveries' =
           IF job.success
             THEN UpdateDelivery(job.delivery.id, "success", newAttemptCount, None, None)
             ELSE UpdateDelivery(job.delivery.id, "pending", newAttemptCount, Some("error"),
                                 Some(now + getNextAttemptDelay(newAttemptCount)))
  /\ wjobs' = [wjobs EXCEPT ![w] = (@ \ {job}) \cup {[job EXCEPT !.pc = "insertEvent"]}]
  /\ UNCHANGED <<users, referrals, rewardsLedger, events, rateLimits, tenants, now, claimVars,
                 ledgerCall, evalCall, signCall, wpc, wbatch, isShuttingDown, replays, posts>>

\* JobRecordOutcome with the claim rolled back when the delivery is exhausted.
JobRecordOutcome_RollsBackClaim(w, job) ==
  /\ job \in wjobs[w]
  /\ job.pc = "update"
  /\ LET newAttemptCount == job.delivery.attemptCount + 1
         exhausted == newAttemptCount >= WEBHOOK_RETRY_LIMIT
     IN  /\ webhookDeliveries' =
              IF job.success
                THEN UpdateDelivery(job.delivery.id, "success", newAttemptCount, None, None)
                ELSE UpdateDelivery(job.delivery.id,
                                    IF exhausted THEN "failed" ELSE "pending",
                                    newAttemptCount, Some("error"),
                                    IF exhausted THEN None
                                    ELSE Some(now + getNextAttemptDelay(newAttemptCount)))
         /\ referrals' = IF ~job.success /\ exhausted THEN {} ELSE referrals
  /\ wjobs' = [wjobs EXCEPT ![w] = (@ \ {job}) \cup {[job EXCEPT !.pc = "insertEvent"]}]
  /\ UNCHANGED <<users, rewardsLedger, events, rateLimits, tenants, now, claimVars,
                 ledgerCall, evalCall, signCall, wpc, wbatch, isShuttingDown, replays, posts>>

\* Lines 163-184 and 198-223: record the attempt's outcome in the row, by
\* id, counting from the attemptCount the poll read.
JobRecordOutcome(w, job) ==
  /\ job \in wjobs[w]
  /\ job.pc = "update"
  /\ LET newAttemptCount == job.delivery.attemptCount + 1
         exhausted == newAttemptCount >= WEBHOOK_RETRY_LIMIT
     IN  webhookDeliveries' =
           IF job.success
             THEN UpdateDelivery(job.delivery.id, "success", newAttemptCount, None, None)
             ELSE UpdateDelivery(job.delivery.id,
                                 IF exhausted THEN "failed" ELSE "pending",
                                 newAttemptCount, Some("error"),
                                 IF exhausted THEN None
                                 ELSE Some(now + getNextAttemptDelay(newAttemptCount)))
  /\ wjobs' = [wjobs EXCEPT ![w] = (@ \ {job}) \cup {[job EXCEPT !.pc = "insertEvent"]}]
  /\ UNCHANGED <<users, referrals, rewardsLedger, events, rateLimits, tenants, now, claimVars,
                 ledgerCall, evalCall, signCall, wpc, wbatch, isShuttingDown, replays, posts>>

\* JobInsertEvent that also enqueues a delivery for the event it appends.
JobInsertEvent_EnqueuesItsEvent(w, job) ==
  /\ job \in wjobs[w]
  /\ job.pc = "insertEvent"
  /\ LET newAttemptCount == job.delivery.attemptCount + 1
         exhausted == newAttemptCount >= WEBHOOK_RETRY_LIMIT
         event == [id |-> FreshId(events), tenantId |-> job.delivery.tenantId,
                   type |-> IF job.success THEN "webhook.sent"
                            ELSE IF exhausted THEN "webhook.exhausted" ELSE "webhook.failed",
                   payload |-> [deliveryId |-> job.delivery.id, eventId |-> job.delivery.eventId,
                                attemptCount |-> newAttemptCount]]
     IN  /\ events' = events \cup {event}
         /\ webhookDeliveries' =
              webhookDeliveries \cup {NewDeliveryRow(event.tenantId, event.id, job.delivery.url)}
  /\ wjobs' = [wjobs EXCEPT ![w] = @ \ {job}]
  /\ UNCHANGED <<users, referrals, rewardsLedger, rateLimits, tenants, now,
                 claimVars, ledgerCall, evalCall, signCall, wpc, wbatch, isShuttingDown, replays, posts>>

\* Lines 186-196 and 225-236: append the webhook.sent, webhook.failed or
\* webhook.exhausted event; processDelivery returns.
JobInsertEvent(w, job) ==
  /\ job \in wjobs[w]
  /\ job.pc = "insertEvent"
  /\ LET newAttemptCount == job.delivery.attemptCount + 1
         exhausted == newAttemptCount >= WEBHOOK_RETRY_LIMIT
     IN  events' = events \cup
           {[id |-> FreshId(events), tenantId |-> job.delivery.tenantId,
             type |-> IF job.success THEN "webhook.sent"
                      ELSE IF exhausted THEN "webhook.exhausted" ELSE "webhook.failed",
             payload |-> [deliveryId |-> job.delivery.id, eventId |-> job.delivery.eventId,
                          attemptCount |-> newAttemptCount]]}
  /\ wjobs' = [wjobs EXCEPT ![w] = @ \ {job}]
  /\ UNCHANGED <<users, referrals, rewardsLedger, webhookDeliveries, rateLimits, tenants, now,
                 claimVars, ledgerCall, evalCall, signCall, wpc, wbatch, isShuttingDown, replays, posts>>

\* JobThrows with the exception escaping processWithConcurrency: the rest
\* of the batch is lost with it.
JobThrows_AbortsBatch(w, job) ==
  /\ job \in wjobs[w]
  /\ job.pc \in {"event", "update", "insertEvent"}
  /\ wjobs' = [wjobs EXCEPT ![w] = {}]
  /\ wbatch' = [wbatch EXCEPT ![w] = {}]
  /\ UNCHANGED <<dbVars, now, claimVars, ledgerCall, evalCall, signCall, wpc, isShuttingDown, replays, posts>>

\* Lines 256-265: a database call of processDelivery rejects; the catch in
\* processWithConcurrency logs the error and the call is over, whatever it
\* had done so far.
JobThrows(w, job) ==
  /\ job \in wjobs[w]
  /\ job.pc \in {"event", "update", "insertEvent"}
  /\ wjobs' = [wjobs EXCEPT ![w] = @ \ {job}]
  /\ UNCHANGED <<dbVars, now, claimVars, ledgerCall, evalCall, signCall, wpc, wbatch, isShuttingDown, replays,
                 posts>>

\* Lines 292-295 and 310-322: the poll's query rejects; the catch of
\* runWorkerLoop logs the error and the loop sleeps until the next poll.
FetchDueDeliveriesThrows(w) ==
  /\ wpc[w] = "poll"
  /\ ~isShuttingDown[w]
  /\ wpc' = [wpc EXCEPT ![w] = "sleep"]
  /\ UNCHANGED <<dbVars, now, claimVars, ledgerCall, evalCall, signCall, wbatch, wjobs, isShuttingDown, replays, posts>>

\* Lines 301-308: the batch is done; sleep POLL_INTERVAL_MS unless shutting down.
FinishBatch(w) ==
  /\ wpc[w] = "process"
  /\ wjobs[w] = {}
  /\ wbatch[w] = {}
  /\ wpc' = [wpc EXCEPT ![w] = IF isShuttingDown[w] THEN "stopped" ELSE "sleep"]
  /\ UNCHANGED <<dbVars, now, claimVars, ledgerCall, evalCall, signCall, wbatch, wjobs, isShuttingDown, replays, posts>>

\* WakeUp that also fires while the batch is still being processed.
WakeUp_DuringBatch(w) ==
  /\ wpc[w] \in {"sleep", "process"}
  /\ wpc' = [wpc EXCEPT ![w] = "poll"]
  /\ UNCHANGED <<dbVars, now, claimVars, ledgerCall, evalCall, signCall, wbatch, wjobs, isShuttingDown, replays, posts>>

\* Line 307: the poll timer fires.
WakeUp(w) ==
  /\ wpc[w] = "sleep"
  /\ wpc' = [wpc EXCEPT ![w] = "poll"]
  /\ UNCHANGED <<dbVars, now, claimVars, ledgerCall, evalCall, signCall, wbatch, wjobs, isShuttingDown, replays, posts>>

\* Line 292: the loop condition ends the loop after a shutdown request.
ExitLoop(w) ==
  /\ wpc[w] = "poll"
  /\ isShuttingDown[w]
  /\ wpc' = [wpc EXCEPT ![w] = "stopped"]
  /\ UNCHANGED <<dbVars, now, claimVars, ledgerCall, evalCall, signCall, wbatch, wjobs, isShuttingDown, replays, posts>>

\* Lines 270-278: SIGTERM or SIGINT reaches the instance.
Shutdown(w) ==
  /\ ~isShuttingDown[w]
  /\ wpc[w] # "stopped"
  /\ isShuttingDown' = [isShuttingDown EXCEPT ![w] = TRUE]
  /\ UNCHANGED <<dbVars, now, claimVars, ledgerCall, evalCall, signCall, wpc, wbatch, wjobs, replays, posts>>

(***************************************************************************)
(* POST /api/v1/webhooks/replay and POST /api/v1/webhooks/test.  Each      *)
(* request is one step: the rows it reads (an event, the tenant's webhook  *)
(* URL) are not written by any other operation of this module.             *)
(***************************************************************************)
\* The event ids replay requests name: the claimed event's and one that no
\* event has.
ReplayEventIds == {1, 0}

TriggerResponse(route, tenantId, eventId, status, code, deliveryId) ==
  [route |-> route, tenantId |-> tenantId, eventId |-> eventId, status |-> status,
   code |-> code, deliveryId |-> deliveryId]

\* ReplayWebhook that enqueues a row even when it answers EVENT_NOT_FOUND.
ReplayWebhook_EnqueuesUnknown(tenantId, eventId) ==
  /\ Len(replays) < MaxReplays
  /\ LET event == FindFirst({e \in events : e.tenantId = tenantId /\ e.id = eventId})
         webhookUrl == tenants[tenantId].webhookUrl
     IN  IF ~IsSome(event)
           THEN /\ replays' = Append(replays, TriggerResponse("replay", tenantId, Some(eventId),
                                                              404, Some("EVENT_NOT_FOUND"), None))
                /\ webhookDeliveries' =
                     webhookDeliveries \cup {NewDeliveryRow(tenantId, eventId, WebhookUrl)}
         ELSE IF ~IsSome(webhookUrl)
           THEN /\ replays' = Append(replays, TriggerResponse("replay", tenantId, Some(eventId),
                                                              400, Some("WEBHOOK_NOT_CONFIGURED"),
                                                              None))
                /\ UNCHANGED webhookDeliveries
         ELSE LET delivery == NewDeliveryRow(tenantId, Get(event).id, Get(webhookUrl))
              IN  /\ webhookDeliveries' = webhookDeliveries \cup {delivery}
                  /\ replays' = Append(replays, TriggerResponse("replay", tenantId,
                                                                Some(Get(event).id), 201, None,
                                                                Some(delivery.id)))
  /\ UNCHANGED <<users, referrals, rewardsLedger, events, rateLimits, tenants, now, claimVars,
                 ledgerCall, evalCall, signCall, wpc, wbatch, wjobs, isShuttingDown, posts>>

\* replay/route.ts: EVENT_NOT_FOUND without the event in the caller's tenant,
\* WEBHOOK_NOT_CONFIGURED without a webhook URL, else a new pending row.
ReplayWebhook(tenantId, eventId) ==
  /\ Len(replays) < MaxReplays
  /\ LET event == FindFirst({e \in events : e.tenantId = tenantId /\ e.id = eventId})
         webhookUrl == tenants[tenantId].webhookUrl
     IN  IF ~IsSome(event)
           THEN /\ replays' = Append(replays, TriggerResponse("replay", tenantId, Some(eventId),
                                                              404, Some("EVENT_NOT_FOUND"), None))
                /\ UNCHANGED webhookDeliveries
         ELSE IF ~IsSome(webhookUrl)
           THEN /\ replays' = Append(replays, TriggerResponse("replay", tenantId, Some(eventId),
                                                              400, Some("WEBHOOK_NOT_CONFIGURED"),
                                                              None))
                /\ UNCHANGED webhookDeliveries
         ELSE LET delivery == NewDeliveryRow(tenantId, Get(event).id, Get(webhookUrl))
              IN  /\ webhookDeliveries' = webhookDeliveries \cup {delivery}
                  /\ replays' = Append(replays, TriggerResponse("replay", tenantId,
                                                                Some(Get(event).id), 201, None,
                                                                Some(delivery.id)))
  /\ UNCHANGED <<users, referrals, rewardsLedger, events, rateLimits, tenants, now, claimVars,
                 ledgerCall, evalCall, signCall, wpc, wbatch, wjobs, isShuttingDown, posts>>

\* webhooks/test route: WEBHOOK_NOT_CONFIGURED without a webhook URL, else a
\* webhook.test event and a pending row for it.
TestWebhook(tenantId) ==
  /\ Len(replays) < MaxReplays
  /\ LET webhookUrl == tenants[tenantId].webhookUrl
     IN  IF ~IsSome(webhookUrl)
           THEN /\ replays' = Append(replays, TriggerResponse("test", tenantId, None, 400,
                                                              Some("WEBHOOK_NOT_CONFIGURED"),
                                                              None))
                /\ UNCHANGED <<events, webhookDeliveries>>
           ELSE LET event == [id |-> FreshId(events), tenantId |-> tenantId,
                              type |-> "webhook.test", payload |-> [type |-> "webhook.test"]]
                    delivery == NewDeliveryRow(tenantId, event.id, Get(webhookUrl))
                IN  /\ events' = events \cup {event}
                    /\ webhookDeliveries' = webhookDeliveries \cup {delivery}
                    /\ replays' = Append(replays, TriggerResponse("test", tenantId,
                                                                  Some(event.id), 201, None,
                                                                  Some(delivery.id)))
  /\ UNCHANGED <<users, referrals, rewardsLedger, rateLimits, tenants, now, claimVars,
                 ledgerCall, evalCall, signCall, wpc, wbatch, wjobs, isShuttingDown, posts>>

\* Time passes until the next retry falls due.
AdvanceClock ==
  LET waiting == {Get(d.nextAttemptAt) :
                    d \in {x \in webhookDeliveries :
                             x.status = "pending" /\ IsSome(x.nextAttemptAt)
                             /\ Get(x.nextAttemptAt) > now}}
  IN  /\ waiting # {}
      /\ now' = CHOOSE t \in waiting : \A u \in waiting : t <= u
      /\ UNCHANGED <<dbVars, claimVars, ledgerCall, evalCall, signCall, workerVars>>

(***************************************************************************)
(* The dispatcher instances at work.  The behaviour starts after the       *)
(* first claim(REF123, u2) of a tenant with default reward rules and a     *)
(* webhook URL: its rows are committed and its delivery is enqueued.       *)
(***************************************************************************)
ClaimedReferral ==
  [id |-> 1, tenantId |-> "tA", referrerUserId |-> 1, referredExternalUserId |-> "u2",
   referredUserId |-> 3, refCodeUsed |-> "REF123", status |-> "completed"]

ClaimedRewards ==
  calculateRewards([referralId |-> 1, referrerUserId |-> 1, referrerTier |-> "pro",
                    referredUserId |-> 3, tenantRewardSettings |-> None])

ClaimedEvent ==
  [id |-> 1, tenantId |-> "tA", type |-> "referral.claimed",
   payload |-> [referralId |-> 1, referrerUserId |-> "u1", referredUserId |-> "u2",
                referralCode |-> "REF123",
                referrer |-> RewardJson(ClaimedRewards.referrerReward),
                referred |-> RewardJson(ClaimedRewards.referredReward)]]

InitDispatch ==
  /\ users = InitialUsers \cup
               {[id |-> 3, tenantId |-> "tA", externalUserId |-> "u2", plan |-> "free",
                 referralCode |-> "ref_pending_u2"]}
  /\ referrals = {ClaimedReferral}
  /\ rewardsLedger = InsertRewards({}, "tA", ClaimedRewards)
  /\ events = {ClaimedEvent}
  /\ webhookDeliveries =
       {[id |-> 1, tenantId |-> "tA", eventId |-> 1, url |-> WebhookUrl, status |-> "pending",
         attemptCount |-> 0, lastAttemptAt |-> None, nextAttemptAt |-> Some(0),
         lastError |-> None]}
  /\ rateLimits = (<<"tA", IpKey("ip1"), 0>> :> 1) @@ (<<"tA", UserKey("u2"), 0>> :> 1)
  /\ tenants = [t \in Tenants |-> [webhookUrl |-> Some(WebhookUrl),
                                   referralSettingsJson |-> None]]
  /\ now = 0
  /\ cpc = [p \in Procs |-> "idle"]
  /\ creq = [p \in Procs |-> NoRequest]
  /\ cloc = [p \in Procs |-> IdleLocals]
  /\ started = 0
  /\ retries = 0
  /\ responses = {}
  /\ pendingEnqueue = {}
  /\ ledgerCall = None
  /\ evalCall = None
  /\ signCall = None
  /\ wpc = [w \in Workers |-> "poll"]
  /\ wbatch = [w \in Workers |-> {}]
  /\ wjobs = [w \in Workers |-> {}]
  /\ isShuttingDown = [w \in Workers |-> FALSE]
  /\ replays = <<>>
  /\ posts = <<>>

NextDispatch ==
  \/ \E w \in Workers : FetchDueDeliveries(w)
  \/ \E w \in Workers : StartChunk(w)
  \/ \E w \in Workers : \E job \in wjobs[w] : JobLookupEvent(w, job)
  \/ \E w \in Workers : \E job \in wjobs[w] : \E ok \in BOOLEAN : JobPost(w, job, ok)
  \/ \E w \in Workers : \E job \in wjobs[w] : JobRecordOutcome(w, job)
  \/ \E w \in Workers : \E job \in wjobs[w] : JobInsertEvent(w, job)
  \/ \E w \in Workers : FinishBatch(w)
  \/ \E w \in Workers : WakeUp(w)
  \/ \E w \in Workers : ExitLoop(w)
  \/ \E w \in Workers : Shutdown(w)
  \/ \E t \in Tenants : \E eventId \in ReplayEventIds : ReplayWebhook(t, eventId)
  \/ \E t \in Tenants : TestWebhook(t)
  \/ AdvanceClock

SpecDispatch == InitDispatch /\ [][NextDispatch]_vars

(***************************************************************************)
(* The dispatcher instances late in a delivery's life.  The behaviour      *)
(* starts when the delivery of the claimed event has failed PriorFailures  *)
(* times in a row, each attempt made as soon as it fell due, and the       *)
(* instances are between two polls.                                        *)
(***************************************************************************)
PriorFailures == 4   \* failed attempts already recorded

\* The time of the k-th attempt of a row enqueued at 0 whose attempts all fail.
RECURSIVE AttemptTime(_)
AttemptTime(k) ==
  IF k = 1 THEN 0 ELSE AttemptTime(k - 1) + getNextAttemptDelay(k - 1)

FailedEvent(k) ==
  [id |-> k + 1, tenantId |-> "tA", type |-> "webhook.failed",
   payload |-> [deliveryId |-> 1, eventId |-> 1, attemptCount |-> k]]

InitExhaust ==
  /\ users = InitialUsers \cup
               {[id |-> 3, tenantId |-> "tA", externalUserId |-> "u2", plan |-> "free",
                 referralCode |-> "ref_pending_u2"]}
  /\ referrals = {ClaimedReferral}
  /\ rewardsLedger = InsertRewards({}, "tA", ClaimedRewards)
  /\ events = {ClaimedEvent} \cup {FailedEvent(k) : k \in 1..PriorFailures}
  /\ webhookDeliveries =
       {[id |-> 1, tenantId |-> "tA", eventId |-> 1, url |-> WebhookUrl, status |-> "pending",
         attemptCount |-> PriorFailures,
         lastAttemptAt |-> Some(AttemptTime(PriorFailures)),
         nextAttemptAt |-> Some(AttemptTime(PriorFailures + 1)),
         lastError |-> Some("error")]}
  /\ rateLimits = (<<"tA", IpKey("ip1"), 0>> :> 1) @@ (<<"tA", UserKey("u2"), 0>> :> 1)
  /\ tenants = [t \in Tenants |-> [webhookUrl |-> Some(WebhookUrl),
                                   referralSettingsJson |-> None]]
  /\ now = AttemptTime(PriorFailures)
  /\ cpc = [p \in Procs |-> "idle"]
  /\ creq = [p \in Procs |-> NoRequest]
  /\ cloc = [p \in Procs |-> IdleLocals]
  /\ started = 0
  /\ retries = 0
  /\ responses = {}
  /\ pendingEnqueue = {}
  /\ ledgerCall = None
  /\ evalCall = None
  /\ signCall = None
  /\ wpc = [w \in Workers |-> "poll"]
  /\ wbatch = [w \in Workers |-> {}]
  /\ wjobs = [w \in Workers |-> {}]
  /\ isShuttingDown = [w \in Workers |-> FALSE]
  /\ replays = <<>>
  /\ posts = <<>>

SpecExhaust == InitExhaust /\ [][NextDispatch]_vars

(***************************************************************************)
(* The same instances with failing database calls and no shutdown signal:  *)
(* any awaited database call of processDelivery may reject.                *)
(***************************************************************************)
NextFaulty ==
  \/ \E w \in Workers : FetchDueDeliveries(w)
  \/ \E w \in Workers : StartChunk(w)
  \/ \E w \in Workers : \E job \in wjobs[w] : JobLookupEvent(w, job)
  \/ \E w \in Workers : \E job \in wjobs[w] : \E ok \in BOOLEAN : JobPost(w, job, ok)
  \/ \E w \in Workers : \E job \in wjobs[w] : JobRecordOutcome(w, job)
  \/ \E w \in Workers : \E job \in wjobs[w] : JobInsertEvent(w, job)
  \/ \E w \in Workers : \E job \in wjobs[w] : JobThrows(w, job)
  \/ \E w \in Workers : FinishBatch(w)
  \/ \E w \in Workers : WakeUp(w)
  \/ \E t \in Tenants : \E eventId \in ReplayEventIds : ReplayWebhook(t, eventId)
  \/ \E t \in Tenants : TestWebhook(t)
  \/ AdvanceClock

SpecFaulty == InitExhaust /\ [][NextFaulty]_vars

(***************************************************************************)
(* A deployment with one dispatcher instance (Replicas 1): the loop of     *)
(* runWorkerLoop alone on the queue, next to the replay and test routes.   *)
(***************************************************************************)
TheInstance == CHOOSE w \in Workers : \A v \in Workers : w <= v

NextSingle ==
  \/ FetchDueDeliveries(TheInstance)
  \/ StartChunk(TheInstance)
  \/ \E job \in wjobs[TheInstance] : JobLookupEvent(TheInstance, job)
  \/ \E job \in wjobs[TheInstance] : \E ok \in BOOLEAN : JobPost(TheInstance, job, ok)
  \/ \E job \in wjobs[TheInstance] : JobRecordOutcome(TheInstance, job)
  \/ \E job \in wjobs[TheInstance] : JobInsertEvent(TheInstance, job)
  \/ FinishBatch(TheInstance)
  \/ WakeUp(TheInstance)
  \/ ExitLoop(TheInstance)
  \/ Shutdown(TheInstance)
  \/ \E t \in Tenants : \E eventId \in ReplayEventIds : ReplayWebhook(t, eventId)
  \/ \E t \in Tenants : TestWebhook(t)
  \/ AdvanceClock

SpecSingle == InitDispatch /\ [][NextSingle]_vars

(***************************************************************************)
(* The single instance stopped at work: the signal arrives while a         *)
(* delivery of the fetched batch is in flight, or between two batches      *)
(* (before a poll or during the sleep after one).                          *)
(***************************************************************************)
NextShutdown ==
  \/ FetchDueDeliveries(TheInstance)
  \/ StartChunk(TheInstance)
  \/ \E job \in wjobs[TheInstance] : JobLookupEvent(TheInstance, job)
  \/ \E job \in wjobs[TheInstance] : \E ok \in BOOLEAN : JobPost(TheInstance, job, ok)
  \/ \E job \in wjobs[TheInstance] : JobRecordOutcome(TheInstance, job)
  \/ \E job \in wjobs[TheInstance] : JobInsertEvent(TheInstance, job)
  \/ FinishBatch(TheInstance)
  \/ WakeUp(TheInstance)
  \/ ExitLoop(TheInstance)
  \/ (wjobs[TheInstance] # {} \/ wpc[TheInstance] # "process") /\ Shutdown(TheInstance)
  \/ \E t \in Tenants : \E eventId \in ReplayEventIds : ReplayWebhook(t, eventId)
  \/ \E t \in Tenants : TestWebhook(t)
  \/ AdvanceClock

SpecShutdown == InitDispatch /\ [][NextShutdown]_vars

(***************************************************************************)
(* The single instance running without end on two rows late in their       *)
(* lives.  The delivery of the claimed event, enqueued at 0, has failed    *)
(* five times; a replay of the event, enqueued at ReplayedAt, has just     *)
(* failed for the fourth time.  Every step of the loop that can be taken   *)
(* is taken in the end: the poll timer fires, a database call returns, the *)
(* HTTP call returns or is aborted after WEBHOOK_TIMEOUT_MS, time passes.  *)
(***************************************************************************)
ReplayedAt == AttemptTime(5) - AttemptTime(4)

FailedEventOf(id, deliveryId, k) ==
  [id |-> id, tenantId |-> "tA", type |-> "webhook.failed",
   payload |-> [deliveryId |-> deliveryId, eventId |-> 1, attemptCount |-> k]]

InitRunning ==
  /\ users = InitialUsers \cup
               {[id |-> 3, tenantId |-> "tA", externalUserId |-> "u2", plan |-> "free",
                 referralCode |-> "ref_pending_u2"]}
  /\ referrals = {ClaimedReferral}
  /\ rewardsLedger = InsertRewards({}, "tA", ClaimedRewards)
  /\ events = {ClaimedEvent}
               \cup {FailedEventOf(k + 1, 1, k) : k \in 1..4}
               \cup {FailedEventOf(k + 5, 2, k) : k \in 1..3}
               \cup {FailedEventOf(9, 1, 5), FailedEventOf(10, 2, 4)}
  /\ webhookDeliveries =
       {[id |-> 1, tenantId |-> "tA", eventId |-> 1, url |-> WebhookUrl, status |-> "pending",
         attemptCount |-> 5,
         lastAttemptAt |-> Some(AttemptTime(5)),
         nextAttemptAt |-> Some(AttemptTime(6)),
         lastError |-> Some("error")],
        [id |-> 2, tenantId |-> "tA", eventId |-> 1, url |-> WebhookUrl, status |-> "pending",
         attemptCount |-> 4,
         lastAttemptAt |-> Some(ReplayedAt + AttemptTime(4)),
         nextAttemptAt |-> Some(ReplayedAt + AttemptTime(5)),
         lastError |-> Some("error")]}
  /\ rateLimits = (<<"tA", IpKey("ip1"), 0>> :> 1) @@ (<<"tA", UserKey("u2"), 0>> :> 1)
  /\ tenants = [t \in Tenants |-> [webhookUrl |-> Some(WebhookUrl),
                                   referralSettingsJson |-> None]]
  /\ now = AttemptTime(5)
  /\ cpc = [p \in Procs |-> "idle"]
  /\ creq = [p \in Procs |-> NoRequest]
  /\ cloc = [p \in Procs |-> IdleLocals]
  /\ started = 0
  /\ retries = 0
  /\ responses = {}
  /\ pendingEnqueue = {}
  /\ ledgerCall = None
  /\ evalCall = None
  /\ signCall = None
  /\ wpc = [w \in Workers |-> "poll"]
  /\ wbatch = [w \in Workers |-> {}]
  /\ wjobs = [w \in Workers |-> {}]
  /\ isShuttingDown = [w \in Workers |-> FALSE]
  /\ replays = <<TriggerResponse("replay", "tA", Some(1), 201, None, Some(2))>>
  /\ posts = <<>>

LoopStep ==
  \/ FetchDueDeliveries(TheInstance)
  \/ StartChunk(TheInstance)
  \/ \E job \in wjobs[TheInstance] : JobLookupEvent(TheInstance, job)
  \/ \E job \in wjobs[TheInstance] : \E ok \in BOOLEAN : JobPost(TheInstance, job, ok)
  \/ \E job \in wjobs[TheInstance] : JobRecordOutcome(TheInstance, job)
  \/ \E job \in wjobs[TheInstance] : JobInsertEvent(TheInstance, job)
  \/ FinishBatch(TheInstance)
  \/ WakeUp(TheInstance)

NextRunning == LoopStep \/ AdvanceClock

SpecRunning ==
  InitRunning /\ [][NextRunning]_vars /\ WF_vars(LoopStep) /\ WF_vars(AdvanceClock)

(***************************************************************************)
(* The single instance with failing database calls and no shutdown signal: *)
(* the poll or any awaited database call of processDelivery may reject.    *)
(***************************************************************************)
NextSingleFaulty ==
  \/ FetchDueDeliveries(TheInstance)
  \/ FetchDueDeliveriesThrows(TheInstance)
  \/ StartChunk(TheInstance)
  \/ \E job \in wjobs[TheInstance] : JobLookupEvent(TheInstance, job)
  \/ \E job \in wjobs[TheInstance] : \E ok \in BOOLEAN : JobPost(TheInstance, job, ok)
  \/ \E job \in wjobs[TheInstance] : JobRecordOutcome(TheInstance, job)
  \/ \E job \in wjobs[TheInstance] : JobInsertEvent(TheInstance, job)
  \/ \E job \in wjobs[TheInstance] : JobThrows(TheInstance, job)
  \/ FinishBatch(TheInstance)
  \/ WakeUp(TheInstance)
  \/ \E t \in Tenants : \E eventId \in ReplayEventIds : ReplayWebhook(t, eventId)
  \/ \E t \in Tenants : TestWebhook(t)
  \/ AdvanceClock

SpecSingleFaulty == InitDispatch /\ [][NextSingleFaulty]_vars

(***************************************************************************)
(* The triggers next to a tenant that changes its webhook URL              *)
(* (PUT /api/v1/tenant/webhook).  The behaviour starts when the delivery   *)
(* of the claimed event has succeeded at its first attempt.                *)
(***************************************************************************)
WebhookUrlChoices == {Some(WebhookUrl), Some("https://hooks.example/v2"), None}

\* tenant/webhook route, PUT: the tenant's webhook URL is replaced.
SetWebhookUrl(tenantId, webhookUrl) ==
  /\ tenants[tenantId].webhookUrl # webhookUrl
  /\ tenants' = [tenants EXCEPT ![tenantId].webhookUrl = webhookUrl]
  /\ UNCHANGED <<users, referrals, rewardsLedger, events, webhookDeliveries, rateLimits, now,
                 claimVars, ledgerCall, evalCall, signCall, workerVars>>

SentEvent ==
  [id |-> 2, tenantId |-> "tA", type |-> "webhook.sent",
   payload |-> [deliveryId |-> 1, eventId |-> 1, attemptCount |-> 1]]

InitTrigger ==
  /\ users = InitialUsers \cup
               {[id |-> 3, tenantId |-> "tA", externalUserId |-> "u2", plan |-> "free",
                 referralCode |-> "ref_pending_u2"]}
  /\ referrals = {ClaimedReferral}
  /\ rewardsLedger = InsertRewards({}, "tA", ClaimedRewards)
  /\ events = {ClaimedEvent, SentEvent}
  /\ webhookDeliveries =
       {[id |-> 1, tenantId |-> "tA", eventId |-> 1, url |-> WebhookUrl, status |-> "success",
         attemptCount |-> 1, lastAttemptAt |-> Some(0), nextAttemptAt |-> None,
         lastError |-> None]}
  /\ rateLimits = (<<"tA", IpKey("ip1"), 0>> :> 1) @@ (<<"tA", UserKey("u2"), 0>> :> 1)
  /\ tenants = [t \in Tenants |-> [webhookUrl |-> Some(WebhookUrl),
                                   referralSettingsJson |-> None]]
  /\ now = 0
  /\ cpc = [p \in Procs |-> "idle"]
  /\ creq = [p \in Procs |-> NoRequest]
  /\ cloc = [p \in Procs |-> IdleLocals]
  /\ started = 0
  /\ retries = 0
  /\ responses = {}
  /\ pendingEnqueue = {}
  /\ ledgerCall = None
  /\ evalCall = None
  /\ signCall = None
  /\ wpc = [w \in Workers |-> "poll"]
  /\ wbatch = [w \in Workers |-> {}]
  /\ wjobs = [w \in Workers |-> {}]
  /\ isShuttingDown = [w \in Workers |-> FALSE]
  /\ replays = <<>>
  /\ posts = <<>>

NextTrigger ==
  \/ \E t \in Tenants : \E webhookUrl \in WebhookUrlChoices : SetWebhookUrl(t, webhookUrl)
  \/ NextDispatch

SpecTrigger == InitTrigger /\ [][NextTrigger]_vars

(***************************************************************************)
(* POST /api/v1/users: handleUpsertUser.  The handler's read and its write *)
(* are taken as one step; run against a concurrent writer of the same user *)
(* the insert is rejected by the unique index and nothing is written.      *)
(***************************************************************************)
UPSERT_PER_TENANT == 60
MaxUpserts == 1      \* user upserts served in one behaviour

UpsertKey(tenantId) == "upsert:tenant:" \o tenantId

\* The upsert requests served so far, over every window.
UpsertsServed ==
  Cardinality({k \in DOMAIN rateLimits : k[2] \in {UpsertKey(t) : t \in Tenants}})

\* generateUniqueReferralCode: a code no user of the tenant holds.
generateUniqueReferralCode(us, tenantId) == "ref_" \o ToString(FreshId(us))

\* UpsertUser that also rewrites the status of the user's referrals.
UpsertUser_TouchesReferrals(tenantId, externalUserId, subscriptionTier) ==
  /\ UpsertsServed < MaxUpserts
  /\ LET rateLimit == checkRateLimit(rateLimits, tenantId, UpsertKey(tenantId),
                                     UPSERT_PER_TENANT, now)
         existingUser == getUserByExternalId(users, tenantId, externalUserId)
     IN  /\ rateLimits' = rateLimit.table
         /\ rateLimit.allowed
         /\ users' = {[u EXCEPT !.plan = normalizeSubscriptionTier(subscriptionTier)] : u \in users}
         /\ referrals' = {[r EXCEPT !.status = "pending"] : r \in referrals}
  /\ UNCHANGED <<rewardsLedger, events, webhookDeliveries, tenants, now, claimVars,
                 ledgerCall, evalCall, signCall, workerVars>>

\* Lines 40-153: the tenant's upsert rate limit, then the user's row is
\* updated (plan) or inserted with a generated referral code.
UpsertUser(tenantId, externalUserId, subscriptionTier) ==
  /\ UpsertsServed < MaxUpserts
  /\ LET rateLimit == checkRateLimit(rateLimits, tenantId, UpsertKey(tenantId),
                                     UPSERT_PER_TENANT, now)
         normalizedTier == normalizeSubscriptionTier(subscriptionTier)
         existingUser == getUserByExternalId(users, tenantId, externalUserId)
     IN  /\ rateLimits' = rateLimit.table
         /\ users' =
              IF ~rateLimit.allowed THEN users
              ELSE IF IsSome(existingUser)
                THEN {IF u.tenantId = tenantId /\ u.externalUserId = externalUserId
                        THEN [u EXCEPT !.plan = normalizedTier] ELSE u : u \in users}
                ELSE users \cup {[id |-> FreshId(users), tenantId |-> tenantId,
                                  externalUserId |-> externalUserId, plan |-> normalizedTier,
                                  referralCode |-> generateUniqueReferralCode(users, tenantId)]}
  /\ UNCHANGED <<referrals, rewardsLedger, events, webhookDeliveries, tenants, now, claimVars,
                 ledgerCall, evalCall, signCall, workerVars>>

(***************************************************************************)
(* Every operation next to every other: one claim handler, the user        *)
(* upsert, the triggers and one dispatcher instance with failing database  *)
(* calls, after the first claim(REF123, u2): a repeat of that claim or a   *)
(* second first-time claim.                                                *)
(***************************************************************************)
SystemRequests == 1  \* claim requests started in one behaviour of the whole system
SystemPosts == 2     \* HTTP POSTs sent in one behaviour of the whole system

SystemClaims ==
  {r \in WellFormedRequests :
     <<r.referralCode, r.referredUserId>> \in {<<"REF123", "u2">>, <<"REF123", "u3">>}}

UpsertInputs == {<<"u1", "free">>, <<"u4", "PRO">>}

NextSystem ==
  \/ started < SystemRequests /\ \E req \in SystemClaims : StartClaim(1, req)
  \/ ClaimIpRateLimit(1)
  \/ ClaimUserRateLimit(1)
  \/ ClaimShortCircuit(1)
  \/ ClaimFindReferrer(1)
  \/ ClaimCap(1)
  \/ ClaimGetReferredUser(1)
  \/ ClaimDoubleCheck(1)
  \/ ClaimTxCommit(1)
  \/ ClaimRespondCreated(1)
  \/ \E e \in pendingEnqueue : EnqueueWebhook(e)
  \/ \E t \in Tenants : \E u \in UpsertInputs : UpsertUser(t, u[1], u[2])
  \/ \E t \in Tenants : \E eventId \in ReplayEventIds : ReplayWebhook(t, eventId)
  \/ \E t \in Tenants : TestWebhook(t)
  \/ FetchDueDeliveries(1)
  \/ StartChunk(1)
  \/ \E job \in wjobs[1] : JobLookupEvent(1, job)
  \/ TotalPosts < SystemPosts /\ \E job \in wjobs[1] : \E ok \in BOOLEAN : JobPost(1, job, ok)
  \/ \E job \in wjobs[1] : JobRecordOutcome(1, job)
  \/ \E job \in wjobs[1] : JobInsertEvent(1, job)
  \/ \E job \in wjobs[1] : JobThrows(1, job)
  \/ FinishBatch(1)
  \/ WakeUp(1)
  \/ AdvanceClock

SpecSystem == InitDispatch /\ [][NextSystem]_vars

(***************************************************************************)
(* Two tenants on one database.  Tenant tB has made its first claim        *)
(* (BCODE, u2): its referrer u1, its referred user u2, the referral, the   *)
(* ledger entry and the event exist.  Tenant tA is freshly provisioned.    *)
(* Both send claims, replays and test triggers.                            *)
(***************************************************************************)
AllTenants == {"tA", "tB"}

OtherWebhookUrl == "https://hooks.example/b"

OtherTenantUsers ==
  {[id |-> 3, tenantId |-> "tB", externalUserId |-> "u1", plan |-> "pro", referralCode |-> "BCODE"],
   [id |-> 4, tenantId |-> "tB", externalUserId |-> "u2", plan |-> "free",
    referralCode |-> "ref_pending_u2"]}

OtherTenantReferral ==
  [id |-> 1, tenantId |-> "tB", referrerUserId |-> 3, referredExternalUserId |-> "u2",
   referredUserId |-> 4, refCodeUsed |-> "BCODE", status |-> "completed"]

OtherTenantRewards ==
  calculateRewards([referralId |-> 1, referrerUserId |-> 3, referrerTier |-> "pro",
                    referredUserId |-> 4, tenantRewardSettings |-> None])

OtherTenantEvent ==
  [id |-> 1, tenantId |-> "tB", type |-> "referral.claimed",
   payload |-> [referralId |-> 1, referrerUserId |-> "u1", referredUserId |-> "u2",
                referralCode |-> "BCODE",
                referrer |-> RewardJson(OtherTenantRewards.referrerReward),
                referred |-> RewardJson(OtherTenantRewards.referredReward)]]

\* The claims sent: in tA a first claim for u2 and a claim with tB's code;
\* in tB a first claim for u3 and a repeat of the claim for u2.
TenantClaims ==
  {[tenantId |-> "tA", ip |-> "ip1", json |-> TRUE, referralCode |-> "REF123", referredUserId |-> "u2"],
   [tenantId |-> "tA", ip |-> "ip1", json |-> TRUE, referralCode |-> "BCODE", referredUserId |-> "u2"],
   [tenantId |-> "tB", ip |-> "ip1", json |-> TRUE, referralCode |-> "BCODE", referredUserId |-> "u3"],
   [tenantId |-> "tB", ip |-> "ip1", json |-> TRUE, referralCode |-> "BCODE", referredUserId |-> "u2"]}

InitTenants ==
  /\ users = InitialUsers \cup OtherTenantUsers
  /\ referrals = {OtherTenantReferral}
  /\ rewardsLedger = InsertRewards({}, "tB", OtherTenantRewards)
  /\ events = {OtherTenantEvent}
  /\ webhookDeliveries = {}
  /\ rateLimits = <<>>
  /\ tenants = [t \in AllTenants |->
                  [webhookUrl |-> Some(IF t = "tA" THEN WebhookUrl ELSE OtherWebhookUrl),
                   referralSettingsJson |-> None]]
  /\ now = 0
  /\ cpc = [p \in Procs |-> "idle"]
  /\ creq = [p \in Procs |-> NoRequest]
  /\ cloc = [p \in Procs |-> IdleLocals]
  /\ started = 0
  /\ retries = 0
  /\ responses = {}
  /\ pendingEnqueue = {}
  /\ ledgerCall = None
  /\ evalCall = None
  /\ signCall = None
  /\ wpc = [w \in Workers |-> "poll"]
  /\ wbatch = [w \in Workers |-> {}]
  /\ wjobs = [w \in Workers |-> {}]
  /\ isShuttingDown = [w \in Workers |-> FALSE]
  /\ replays = <<>>
  /\ posts = <<>>

NextTenants ==
  \/ \E p \in Procs, req \in TenantClaims : StartClaim(p, req)
  \/ \E p \in Procs, failed \in responses : RetryClaim(p, failed)
  \/ \E p \in Procs : ClaimIpRateLimit(p)
  \/ \E p \in Procs : ClaimUserRateLimit(p)
  \/ \E p \in Procs : ClaimShortCircuit(p)
  \/ \E p \in Procs : ClaimFindReferrer(p)
  \/ \E p \in Procs : ClaimInvalidRef(p)
  \/ \E p \in Procs : ClaimCap(p)
  \/ \E p \in Procs : ClaimGetReferredUser(p)
  \/ \E p \in Procs : ClaimDoubleCheck(p)
  \/ \E p \in Procs : ClaimTxCommit(p)
  \/ \E p \in Procs : ClaimTxThrow(p)
  \/ \E p \in Procs : ClaimTxSerializationFailure(p)
  \/ \E p \in Procs : ClaimRespondCreated(p)
  \/ \E e \in pendingEnqueue : EnqueueWebhook(e)
  \/ \E t \in AllTenants : \E eventId \in ReplayEventIds : ReplayWebhook(t, eventId)
  \/ \E t \in AllTenants : TestWebhook(t)

SpecTenants == InitTenants /\ [][NextTenants]_vars

(***************************************************************************)
(* First-time claims for referred users the tenant has no row of; the      *)
(* external ids of two of them start with the same eight characters.       *)
(***************************************************************************)
PendingClaims ==
  [tenantId : Tenants, ip : ClientIps, json : {TRUE}, referralCode : {"REF123"},
   referredUserId : {"user_0001a", "user_0001b", "u2"}]

NextPending ==
  \/ \E p \in Procs, req \in PendingClaims : StartClaim(p, req)
  \/ \E p \in Procs, failed \in responses : RetryClaim(p, failed)
  \/ \E p \in Procs : ClaimIpRateLimit(p)
  \/ \E p \in Procs : ClaimUserRateLimit(p)
  \/ \E p \in Procs : ClaimShortCircuit(p)
  \/ \E p \in Procs : ClaimFindReferrer(p)
  \/ \E p \in Procs : ClaimCap(p)
  \/ \E p \in Procs : ClaimGetReferredUser(p)
  \/ \E p \in Procs : ClaimDoubleCheck(p)
  \/ \E p \in Procs : ClaimTxCommit(p)
  \/ \E p \in Procs : ClaimTxThrow(p)
  \/ \E p \in Procs : ClaimTxSerializationFailure(p)
  \/ \E p \in Procs : ClaimRespondCreated(p)
  \/ \E e \in pendingEnqueue : EnqueueWebhook(e)

SpecPending == Init /\ [][NextPending]_vars

(***************************************************************************)
(* The same first-time claims on a server that keeps running, with an      *)
(* enqueue that may fail: a request in progress and a started enqueue      *)
(* promise get their next step in the end.                                 *)
(***************************************************************************)
NextServing ==
  \/ NextPending
  \/ \E e \in pendingEnqueue : EnqueueWebhookFails(e)

\* Empty counters; the tenant has default reward rules and a webhook URL,
\* or rules of its own and no webhook URL.
InitServing ==
  /\ Init
  /\ rateLimits = <<>>
  /\ \A t \in Tenants : tenants[t].referralSettingsJson \in {None, ScenarioSettings}

SpecServing == InitServing /\ [][NextServing]_vars /\ WF_vars(NextServing)

(***************************************************************************)
(* The ledger's insert on its own: a caller submits a reward row computed  *)
(* by the evaluator, also one whose idempotency key the table holds.       *)
(***************************************************************************)
MaxLedgerReferrals == 2   \* referral ids the submitted rows are drawn from

GrantInputs ==
  [referralId : 1..MaxLedgerReferrals, referrerUserId : {1}, referrerTier : {"free", "pro"},
   referredUserId : {3}, tenantRewardSettings : {None, BonusSettings}]

RewardRows(tenantId, rewardCalc) ==
  {LedgerRow(tenantId, Get(r)) :
     r \in {x \in {rewardCalc.referrerReward, rewardCalc.referredReward} : IsSome(x)}}

LedgerInputs == UNION {RewardRows("tA", calculateRewards(i)) : i \in GrantInputs}

\* A caller is about to run insert(rewardsLedger).values(row).onConflictDoNothing().
SubmitLedgerInsert(row) ==
  /\ IF IsSome(ledgerCall) THEN Get(ledgerCall).done ELSE TRUE
  /\ ledgerCall' = Some([row |-> row, done |-> FALSE, before |-> rewardsLedger])
  /\ UNCHANGED <<dbVars, now, claimVars, workerVars, evalCall, signCall>>

\* The insert statement runs.
ExecLedgerInsert ==
  /\ IsSome(ledgerCall)
  /\ ~Get(ledgerCall).done
  /\ rewardsLedger' = LedgerInsertIfAbsent(rewardsLedger, Get(ledgerCall).row)
  /\ ledgerCall' = Some([Get(ledgerCall) EXCEPT !.done = TRUE, !.before = rewardsLedger])
  /\ UNCHANGED <<users, referrals, events, webhookDeliveries, rateLimits, tenants, now,
                 claimVars, workerVars, evalCall, signCall>>

NextLedger ==
  \/ \E row \in LedgerInputs : SubmitLedgerInsert(row)
  \/ ExecLedgerInsert

SpecLedger == Init /\ [][NextLedger]_vars

(***************************************************************************)
(* The reward evaluator on its own: one call evaluates the rewards of a    *)
(* referral under a raw settings object and a referrer tier.               *)
(***************************************************************************)
\* What a key of the settings object may hold: a number of its own, a
\* string, or nothing (None: the key is missing).
FieldChoices(k) ==
  {None} \cup
  (CASE k = "onboarding_bonus" -> {Some(Num(44)), Some(Str("many"))}
     [] k = "referral_reward_free" -> {Some(Num(11)), Some(Str("many"))}
     [] k = "referral_reward_pro" -> {Some(Num(22)), Some(Str("many"))}
     [] k = "referral_reward_power_pro" -> {Some(Num(33)), Some(Str("many"))}
     [] k = "currency" -> {Some(Str("USD")), Some(Str(" ")), Some(Num(5))})

\* The object holding the chosen keys.
SettingsObject(choice) ==
  [k \in {j \in DOMAIN choice : IsSome(choice[j])} |-> Get(choice[k])]

RawSettingsInputs ==
  {None} \cup
  {Some(SettingsObject([onboarding_bonus |-> a, referral_reward_free |-> b,
                        referral_reward_pro |-> c, referral_reward_power_pro |-> d,
                        currency |-> e])) :
     a \in FieldChoices("onboarding_bonus"), b \in FieldChoices("referral_reward_free"),
     c \in FieldChoices("referral_reward_pro"),
     d \in FieldChoices("referral_reward_power_pro"), e \in FieldChoices("currency")}

\* "" stands for every tier value that is falsy in the code: null,
\* undefined and the empty string.
TierInputs == {"", "free", "pro", "power_pro", "PRO", "PRO ", " pro ", "PowerPro", "gold"}

\* A caller is about to call calculateRewards.
SubmitEvaluation(settings, tier) ==
  /\ evalCall = None
  /\ evalCall' = Some([settings |-> settings, tier |-> tier, done |-> FALSE,
                       rewards |-> None])
  /\ UNCHANGED <<dbVars, now, claimVars, workerVars, ledgerCall, signCall>>

\* calculateRewards runs.
Evaluate ==
  /\ IsSome(evalCall)
  /\ ~Get(evalCall).done
  /\ evalCall' =
       Some([Get(evalCall) EXCEPT
               !.done = TRUE,
               !.rewards = Some(calculateRewards(
                 [referralId |-> 1, referrerUserId |-> 1, referrerTier |-> Get(evalCall).tier,
                  referredUserId |-> 3, tenantRewardSettings |-> Get(evalCall).settings]))])
  /\ UNCHANGED <<dbVars, now, claimVars, workerVars, ledgerCall, signCall>>

NextRewards ==
  \/ \E settings \in RawSettingsInputs : \E tier \in TierInputs :
       SubmitEvaluation(settings, tier)
  \/ Evaluate

SpecRewards == Init /\ [][NextRewards]_vars

(***************************************************************************)
(* Webhook signing on its own: the dispatcher serializes the event of a    *)
(* delivery and signs it for each attempt; a receiver hands a body, a      *)
(* timestamp and a signature to verifyWebhookSignature.  A text is the     *)
(* sequence of its pieces, so that joining texts is concatenation.         *)
(***************************************************************************)
MaxSignedAttempts == 2

WEBHOOK_SIGNING_SECRET == "whsec"

\* HMAC-SHA256 in hex is 64 characters long whatever the message.
Sha256HexLength == 64

\* createHmac("sha256", secret).update(message).digest("hex"): a text of
\* fixed length; distinct (secret, message) pairs give distinct digests,
\* which the first piece stands for.
HmacSha256Hex(secret, message) ==
  [i \in 1..Sha256HexLength |->
     IF i = 1 THEN [key |-> secret, message |-> message] ELSE [key |-> "", message |-> <<>>]]

\* crypto.timingSafeEqual(Buffer.from(a), Buffer.from(b)): throws a
\* RangeError (None) when the byte lengths differ, else answers whether the
\* bytes are equal.
timingSafeEqual(a, b) ==
  IF Len(a) # Len(b) THEN None ELSE Some(a = b)

\* String(Math.floor(Date.now() / 1000)).
UnixSeconds(t) == <<ToString(t \div 1000)>>

\* Lines 16-29 of sign.ts, with the clock read passed in.
signWebhook(payload, t) ==
  LET timestamp == UnixSeconds(t)
      message == timestamp \o <<".">> \o payload
  IN  [timestamp |-> timestamp,
       signature |-> HmacSha256Hex(WEBHOOK_SIGNING_SECRET, message)]

\* Lines 31-38 of sign.ts.
getWebhookHeaders(payload, t) ==
  LET signed == signWebhook(payload, t)
  IN  [contentType |-> "application/json", ts |-> signed.timestamp,
       signature |-> signed.signature]

\* Lines 40-56 of sign.ts: Some(TRUE), Some(FALSE), or None when
\* timingSafeEqual throws.
verifyWebhookSignature(payload, timestamp, signature) ==
  LET message == timestamp \o <<".">> \o payload
      expectedSignature == HmacSha256Hex(WEBHOOK_SIGNING_SECRET, message)
  IN  timingSafeEqual(signature, expectedSignature)

\* Date.prototype.toISOString of a time in milliseconds.
toISOString(t) == <<"1970-01-01T00:00:", ToString(t \div 1000), ".", ToString(t % 1000), "Z">>

\* An event type as text: the name before the dot, the dot, the name after it.
TypeText(type) ==
  CASE type = "referral.claimed" -> <<"referral", ".", "claimed">>
    [] type = "webhook.test" -> <<"webhook", ".", "test">>

\* JSON.stringify of a payloadJson object with one string member.
StringifyData(obj) ==
  LET k == CHOOSE j \in DOMAIN obj : TRUE
  IN  <<"{", k, ":", obj[k], "}">>

\* Lines 119-125 of processDelivery: the body of the POST.
SerializeEvent(event) ==
  <<"{", "id", ":", ToString(event.id), ",", "type", ":">> \o TypeText(event.type)
    \o <<",", "tenantId", ":", event.tenantId, ",", "timestamp", ":">>
    \o toISOString(event.createdAt)
    \o <<",", "data", ":">> \o StringifyData(event.payloadJson) \o <<"}">>

\* The event rows whose deliveries are studied.
SignedEvents ==
  {[id |-> id, tenantId |-> "tA", type |-> c.type, createdAt |-> 0, payloadJson |-> c.data] :
     id \in 1..2,
     c \in {[type |-> "referral.claimed", data |-> [referralCode |-> "REF123"]],
            [type |-> "webhook.test", data |-> [type |-> "test"]]}}

\* What a receiver may be handed in place of the signature that was sent.
ChangedSignatures(signature) ==
  {SubSeq(signature, 1, Len(signature) - 1),
   signature \o <<[key |-> "", message |-> <<>>]>>,
   [signature EXCEPT ![Len(signature)] = [key |-> "", message |-> <<"f">>]],
   <<>>}

\* What a receiver may be handed in place of the body that was sent.
ChangedBodies(body) ==
  {SerializeEvent(e) : e \in SignedEvents} \cup {body \o <<" ">>, <<>>}

\* What a receiver may be handed in place of the timestamp that was sent.
ChangedTimestamps(timestamp) ==
  {UnixSeconds(t) : t \in {0, 1000, 10000}} \cup {<<>>}

\* The timestamp and the body cut at another dot of the signed message.
Recut(timestamp, body) ==
  {[timestamp |-> timestamp \o <<".">> \o SubSeq(body, 1, k - 1),
    payload |-> SubSeq(body, k + 1, Len(body))] :
     k \in {i \in 1..Len(body) : body[i] = "."}}

\* The triple of a request as it was sent.
SentTriple(sent) ==
  [payload |-> sent.body, timestamp |-> sent.headers.ts, signature |-> sent.headers.signature]

\* The triples that differ from the one sent in the body, the timestamp or
\* the signature.
ChangedTriples(sent) ==
  ({[payload |-> b, timestamp |-> sent.headers.ts, signature |-> sent.headers.signature] :
      b \in ChangedBodies(sent.body)}
   \cup {[payload |-> sent.body, timestamp |-> t, signature |-> sent.headers.signature] :
           t \in ChangedTimestamps(sent.headers.ts)}
   \cup {[payload |-> sent.body, timestamp |-> sent.headers.ts, signature |-> g] :
           g \in ChangedSignatures(sent.headers.signature)}
   \cup {[payload |-> r.payload, timestamp |-> r.timestamp,
          signature |-> sent.headers.signature] :
           r \in Recut(sent.headers.ts, sent.body)})
  \ {SentTriple(sent)}

\* A delivery of the event is about to be attempted.
SubmitDelivery(event) ==
  /\ signCall = None
  /\ signCall' = Some([event |-> event, sent |-> <<>>, checked |-> None])
  /\ UNCHANGED <<dbVars, now, claimVars, workerVars, ledgerCall, evalCall>>

\* Lines 119-141 of processDelivery: one attempt builds the body and the
\* headers and posts them.
SendAttempt ==
  /\ IsSome(signCall)
  /\ Len(Get(signCall).sent) < MaxSignedAttempts
  /\ LET payload == SerializeEvent(Get(signCall).event)
         headers == getWebhookHeaders(payload, now)
     IN  signCall' = Some([Get(signCall) EXCEPT
                             !.sent = Append(@, [body |-> payload, headers |-> headers,
                                                 at |-> now])])
  /\ UNCHANGED <<dbVars, now, claimVars, workerVars, ledgerCall, evalCall>>

\* Time passes between two attempts: less than a second when a replay
\* follows at once, the retry delay otherwise.
TimePasses(ms) ==
  /\ IsSome(signCall)
  /\ Get(signCall).sent # <<>>
  /\ Len(Get(signCall).sent) < MaxSignedAttempts
  /\ now = Get(signCall).sent[Len(Get(signCall).sent)].at
  /\ now' = now + ms
  /\ UNCHANGED <<dbVars, claimVars, workerVars, ledgerCall, evalCall, signCall>>

\* The receiver checks what it was handed for attempt i: the request as it
\* was sent, or a changed one.
ReceiverVerifies(i, received) ==
  /\ IsSome(signCall)
  /\ i \in 1..Len(Get(signCall).sent)
  /\ signCall' = Some([Get(signCall) EXCEPT
                         !.checked = Some([attempt |-> i, received |-> received,
                                           result |-> verifyWebhookSignature(
                                             received.payload, received.timestamp,
                                             received.signature)])])
  /\ UNCHANGED <<dbVars, now, claimVars, workerVars, ledgerCall, evalCall>>

NextSign ==
  \/ \E event \in SignedEvents : SubmitDelivery(event)
  \/ SendAttempt
  \/ \E ms \in {500, getNextAttemptDelay(1)} : TimePasses(ms)
  \/ \E i \in 1..MaxSignedAttempts :
       /\ IsSome(signCall)
       /\ i <= Len(Get(signCall).sent)
       /\ \E received \in {SentTriple(Get(signCall).sent[i])}
                            \cup ChangedTriples(Get(signCall).sent[i]) :
            ReceiverVerifies(i, received)

SpecSign == Init /\ [][NextSign]_vars

(***************************************************************************)
(* Properties of the claim path.                                           *)
(***************************************************************************)
SameReferredUser(a, b) ==
  a.tenantId = b.tenantId /\ a.referredExternalUserId = b.referredExternalUserId

\* C1: in every state reached by any interleaving of concurrent and
\* sequential claim calls, retries after aborted transactions included, there
\* is at most one Referral row per (tenantId, referredExternalUserId).
C1_AtMostOneReferralPerReferredUser ==
  \A a, b \in referrals : SameReferredUser(a, b) => a = b

\* Two claims for one referred user raced, the loser's transaction aborted,
\* the loser re-sent its request and was answered; one row exists.
C1_RaceThenRetry ==
  \E failed, again \in responses :
    /\ failed.status = 500
    /\ failed.overlapped
    /\ again.req = failed.req
    /\ again.status = 200
    /\ retries = 1
    /\ \E row \in referrals : row.referredExternalUserId = failed.req.referredUserId

\* The answer of an idempotent replay: 200, alreadyProcessed, the id of the
\* referral the referred user has, no reward data.
IsReplay(r) ==
  /\ r.status = 200
  /\ r.alreadyProcessed
  /\ IsSome(r.referredAtEnd)
  /\ r.referralId = Get(r.referredAtEnd).id
  /\ r.referrerReward = None
  /\ r.referredReward = None

IsFirstTimeSuccess(r) ==
  /\ r.status = 201
  /\ ~r.alreadyProcessed
  /\ IsSome(r.referredAtEnd)
  /\ r.referralId = Get(r.referredAtEnd).id

\* C2: claim calls with identical input that run concurrently for a user
\* not yet referred, with a valid code of another user and no rate limiting,
\* are each answered by the first-time success or by an idempotent replay of
\* it, never by an error, and at most one of them is the first-time success.
C2_ConcurrentIdenticalClaimsNeverFail ==
  /\ \A r \in responses :
       (/\ r.racedSame
        /\ ValidInput(r.req)
        /\ ~r.referredAtStart
        /\ IsSome(r.ownerAtStart)
        /\ Get(r.ownerAtStart) # r.req.referredUserId
        /\ MaxReferralsPerReferrer(r.req.tenantId) = 0
        /\ r.status # 429)
       => IsFirstTimeSuccess(r) \/ IsReplay(r)
  /\ \A a, b \in responses :
       (a.status = 201 /\ b.status = 201 /\ a.req = b.req) => a.referralId = b.referralId

\* A response to a request repeated after its first-time success.
IsRepeatOfSuccess(r) == IsSome(r.prior201) /\ ValidInput(r.req) /\ r.status # 429

C3_ReplayResponse ==
  \A r \in responses :
    IsRepeatOfSuccess(r) =>
      /\ r.status = 200
      /\ r.alreadyProcessed
      /\ r.referralId = Get(r.prior201)
      /\ r.referrerReward = None
      /\ r.referredReward = None

C3_ReplayWritesNothing ==
  \A p \in Procs :
    (IsSome(cloc[p].prior201) /\ cpc'[p] # cpc[p])
      => UNCHANGED <<users, referrals, rewardsLedger, events, webhookDeliveries, pendingEnqueue>>

\* C3: a claim repeated with the same input after its first-time success,
\* passing validation and the rate limits, is answered 200 with
\* alreadyProcessed, the first call's referral id and no reward data, and no
\* step of it adds a Referral, Reward Ledger, Domain Event or Webhook
\* Delivery row.
C3_RepeatedClaimIsReplay == []C3_ReplayResponse /\ [][C3_ReplayWritesNothing]_vars

C3_RepeatAnswered == \E r \in responses : IsRepeatOfSuccess(r) /\ r.status = 200

ScenarioRequest ==
  [tenantId |-> "tA", ip |-> "ip1", json |-> TRUE, referralCode |-> "REF123",
   referredUserId |-> "u2"]

\* u1 is a pro-tier user holding REF123; the tenant's rules grant 200 to
\* pro-tier referrers, 0 to referred users, in AUD.
Scenario ==
  /\ \E u \in users : /\ u.tenantId = "tA" /\ u.externalUserId = "u1"
                      /\ u.plan = "pro" /\ u.referralCode = "REF123"
  /\ LET rules == normalizeRewardRules(tenants["tA"].referralSettingsJson)
     IN  /\ rules.referral_reward_pro = 200
         /\ rules.onboarding_bonus = 0
         /\ rules.currency = "AUD"
  /\ MaxReferralsPerReferrer("tA") = 0

\* C4: in the scenario, the first claim(REF123, u2) is answered 201 with
\* referrerReward {200, AUD}, referredReward null and alreadyProcessed false;
\* a second identical call is answered alreadyProcessed with both rewards
\* null and the same referral id.
C4_ScenarioResponses ==
  Scenario =>
    \A r \in responses :
      (r.req = ScenarioRequest /\ r.status # 429) =>
        /\ (~r.referredAtStart /\ ~r.overlapped) =>
              /\ r.status = 201
              /\ r.referrerReward = Some([amount |-> 200, currency |-> "AUD"])
              /\ r.referredReward = None
              /\ ~r.alreadyProcessed
        /\ IsSome(r.prior201) =>
              /\ r.alreadyProcessed
              /\ r.referrerReward = None
              /\ r.referredReward = None
              /\ r.referralId = Get(r.prior201)

C4_BothCallsAnswered ==
  /\ Scenario
  /\ tenants["tA"].referralSettingsJson = ScenarioSettings
  /\ \E first, second \in responses :
       /\ first.req = ScenarioRequest /\ first.status = 201 /\ ~first.overlapped
       /\ second.req = ScenarioRequest /\ second.prior201 = Some(first.referralId)

\* The reward amounts a response returned for the user with external id ext.
ReturnedIn(r, tenantId, ext) ==
  IF r.status = 201 /\ ~r.alreadyProcessed /\ r.req.tenantId = tenantId
    THEN (IF r.ownerAtStart = Some(ext) /\ IsSome(r.referrerReward)
            THEN Get(r.referrerReward).amount ELSE 0)
         + (IF r.req.referredUserId = ext /\ IsSome(r.referredReward)
              THEN Get(r.referredReward).amount ELSE 0)
    ELSE 0

RECURSIVE SumReturned(_, _, _)
SumReturned(rs, tenantId, ext) ==
  IF rs = {} THEN 0
  ELSE LET r == CHOOSE x \in rs : TRUE
       IN  ReturnedIn(r, tenantId, ext) + SumReturned(rs \ {r}, tenantId, ext)

Quiescent == \A p \in Procs : cpc[p] = "idle"

SameLedgerKey(a, b) ==
  a.tenantId = b.tenantId /\ a.eventId = b.eventId /\ a.userId = b.userId

\* The insert that just ran met a row with its key.
LedgerInsertMetItsKey ==
  /\ IsSome(ledgerCall)
  /\ Get(ledgerCall).done
  /\ \E l \in Get(ledgerCall).before : SameLedgerKey(l, Get(ledgerCall).row)

\* C6: a ledger insert whose (tenant, idempotency key, user) is in the table
\* adds and changes no row and leaves the user's total as it was, and in
\* every state the table holds at most one row per (tenant, idempotency key,
\* user).
C6_LedgerInsertIsIdempotent ==
  /\ \A a, b \in rewardsLedger : SameLedgerKey(a, b) => a = b
  /\ LedgerInsertMetItsKey =>
       LET call == Get(ledgerCall)
       IN  /\ rewardsLedger = call.before
           /\ sumRewardsByUser(rewardsLedger, call.row.tenantId, call.row.userId)
                = sumRewardsByUser(call.before, call.row.tenantId, call.row.userId)

\* An insert ran whose key the table held with another amount.
C6_ConflictingInsertRan ==
  /\ LedgerInsertMetItsKey
  /\ \E l \in Get(ledgerCall).before :
       /\ SameLedgerKey(l, Get(ledgerCall).row)
       /\ l.amount # Get(ledgerCall).row.amount

\* A well-formed request, not rate limited, whose code belongs to the very
\* user it names as referred.
IsSelfReferralRequest(r) ==
  /\ ValidInput(r.req)
  /\ r.status # 429
  /\ r.ownerAtStart = Some(r.req.referredUserId)

\* No referral row has the referrer as its referred user.
NoSelfReferralRow ==
  \A row \in referrals :
    \A u \in users : u.id = row.referrerUserId => u.externalUserId # row.referredExternalUserId

IsUnknownCodeRequest(r) ==
  /\ ValidInput(r.req)
  /\ r.status # 429
  /\ r.ownerAtStart = None
  /\ r.ownerAtEnd = None

\* Every referral row's code is held by a user, and every user row a claim
\* created is the referred user of a referral row.
NoRowFromUnknownCode ==
  /\ \A row \in referrals :
       IsSome(getUserByReferralCode(users, row.tenantId, row.refCodeUsed))
  /\ \A u \in users \ InitialUsers :
       \E row \in referrals : row.referredUserId = u.id

InHand(w) ==
  {d.id : d \in wbatch[w]}
  \cup {job.delivery.id : job \in {j \in wjobs[w] : j.pc \in {"event", "fetch", "update"}}}

\* C9: with two or more dispatcher instances, a row one instance has
\* fetched is in no other instance's hands until the first has recorded the
\* attempt's outcome.
C9_NoRowInTwoHands ==
  \A v, w \in Workers : v # w => InHand(v) \cap InHand(w) = {}

\* What one step may do to a delivery row: nothing to a success or failed
\* row; a pending row becomes success or failed, or stays pending with its
\* attempt_count one higher.
C10_RowStep(d, e) ==
  IF d.status \in {"success", "failed"}
    THEN /\ e.status = d.status
         /\ e.attemptCount = d.attemptCount
         /\ e.nextAttemptAt = d.nextAttemptAt
    ELSE \/ e = d
         \/ e.status \in {"success", "failed"}
         \/ e.status = "pending" /\ e.attemptCount = d.attemptCount + 1

\* C10: a delivery row's status only changes pending->success,
\* pending->pending (attempt_count incremented) or pending->failed, and no
\* step of any dispatcher instance changes the status, attempt_count or
\* next_attempt_at of a success or failed row.
C10_StatusTransitions ==
  [][\A d \in webhookDeliveries : \A e \in webhookDeliveries' :
       e.id = d.id => C10_RowStep(d, e)]_vars

(***************************************************************************)
(* C11.  Exhaustion and replay.                                            *)
(***************************************************************************)
Exhausted(d) == d.status = "failed" /\ d.attemptCount >= WEBHOOK_RETRY_LIMIT

\* No POST of the row has been answered 2xx so far.
AllAttemptsFailed(d) ==
  /\ \A w \in Workers : \A job \in wjobs[w] : job.delivery.id = d.id => ~job.success
  /\ \A e \in events : e.type = "webhook.sent" => e.payload.deliveryId # d.id

\* A row that has used up its attempts without a success is failed, counts
\* exactly the ceiling and has no next attempt.
ExhaustedRowsAreFinal ==
  \A d \in webhookDeliveries :
    d.attemptCount >= WEBHOOK_RETRY_LIMIT /\ d.status # "success" =>
      /\ d.status = "failed"
      /\ d.attemptCount = WEBHOOK_RETRY_LIMIT
      /\ d.nextAttemptAt = None

\* A row exhausted by failures alone is in the table unchanged after the
\* step, and no poll of the step hands it to an instance.
ExhaustedRowsStay ==
  \A d \in webhookDeliveries :
    Exhausted(d) /\ AllAttemptsFailed(d) =>
      /\ d \in webhookDeliveries'
      /\ \A w \in Workers : \A r \in wbatch'[w] \ wbatch[w] : r.id # d.id

\* A replay that is answered 201 for the event of an exhausted row adds one
\* pending row with attempt_count 0 for that event.
ReplayAfterExhaustion ==
  (/\ Len(replays') = Len(replays) + 1
   /\ replays'[Len(replays')].route = "replay"
   /\ \E d \in webhookDeliveries :
        Exhausted(d) /\ Some(d.eventId) = replays'[Len(replays')].eventId) =>
    \E n \in webhookDeliveries' \ webhookDeliveries :
      /\ webhookDeliveries' = webhookDeliveries \cup {n}
      /\ n.status = "pending" /\ n.attemptCount = 0
      /\ Some(n.eventId) = replays'[Len(replays')].eventId

\* C11: with the ceiling 6, a row whose attempts fail 6 times in a row ends
\* failed with attempt_count 6 and no next attempt, is never polled again
\* and never changes, and a replay of its event adds a new pending row with
\* attempt_count 0.
C11_ExhaustedRowIsFinalAndReplayable ==
  []ExhaustedRowsAreFinal /\ [][ExhaustedRowsStay /\ ReplayAfterExhaustion]_vars

\* The row was exhausted, its event replayed, and the new row attempted.
C11_ReplayedRowAttempted ==
  /\ \E d \in webhookDeliveries : Exhausted(d) /\ d.nextAttemptAt = None
  /\ \E n \in webhookDeliveries :
       /\ n.id # 1 /\ n.eventId = 1 /\ n.attemptCount = 1
       /\ PostCount(n.id) = 1
  /\ Len(replays) = 1 /\ replays[1].status = 201

(***************************************************************************)
(* C12.  The backoff schedule.                                             *)
(***************************************************************************)
\* The schedule as stated: 0, 10 s, 60 s, 5 min, 30 min, 2 h by attempt
\* count, 2 h from 5 on.
ScheduledDelay(k) ==
  CASE k = 0 -> 0
    [] k = 1 -> 10 * 1000
    [] k = 2 -> 60 * 1000
    [] k = 3 -> 5 * 60 * 1000
    [] k = 4 -> 30 * 60 * 1000
    [] OTHER -> 2 * 60 * 60 * 1000

DelayTableAsScheduled ==
  \A k \in 0..(2 * WEBHOOK_RETRY_LIMIT) : getNextAttemptDelay(k) = ScheduledDelay(k)

\* A step that records a failure below the ceiling leaves the row pending
\* with next_attempt_at = now + delay(attempt_count).
RecordedFailureSetsBackoff ==
  \A d \in webhookDeliveries : \A e \in webhookDeliveries' :
    (/\ e.id = d.id /\ e # d
     /\ e.lastError = Some("error")
     /\ e.attemptCount < WEBHOOK_RETRY_LIMIT) =>
      /\ e.status = "pending"
      /\ e.nextAttemptAt = Some(now + ScheduledDelay(e.attemptCount))

\* A POST for a row that is pending after a recorded failure goes out only
\* when the row is due.
NoAttemptBeforeDue ==
  \A d \in webhookDeliveries :
    (/\ d.status = "pending" /\ d.lastError = Some("error")
     /\ PostCount(d.id)' > PostCount(d.id)) =>
      IsSome(d.nextAttemptAt) /\ Get(d.nextAttemptAt) <= now

\* C12: the k-th recorded failure below the ceiling sets next_attempt_at to
\* the failure time plus delay(k), delay being 0, 10 s, 60 s, 5 min, 30 min,
\* 2 h by attempt count and 2 h from 5 on, and the row is not attempted
\* again before that time.
C12_BackoffSchedule ==
  []DelayTableAsScheduled /\ [][RecordedFailureSetsBackoff /\ NoAttemptBeforeDue]_vars

\* The part of C12 about the value written.
C12_BackoffValue == []DelayTableAsScheduled /\ [][RecordedFailureSetsBackoff]_vars

(***************************************************************************)
(* C13.  The webhook enqueue comes after the commit and cannot change the  *)
(* claim's outcome.                                                        *)
(***************************************************************************)
\* A delivery row written by the step names a referral.claimed event that
\* was committed before the step.
DeliveryOnlyAfterCommit ==
  \A d \in webhookDeliveries' \ webhookDeliveries :
    \E e \in events :
      e.id = d.eventId /\ e.tenantId = d.tenantId /\ e.type = "referral.claimed"

\* A step that ends an enqueue, with or without a delivery row, leaves the
\* claim's rows and the answers given alone.
EnqueueLeavesClaimAlone ==
  (pendingEnqueue' \subseteq pendingEnqueue /\ pendingEnqueue' # pendingEnqueue) =>
    UNCHANGED <<users, referrals, rewardsLedger, events, responses>>

CommittedRowsStay ==
  /\ referrals \subseteq referrals'
  /\ rewardsLedger \subseteq rewardsLedger'
  /\ events \subseteq events'

\* Every committed referral is answered 201 as a first-time success, or its
\* handler is about to answer.
CommittedClaimAnswered201 ==
  \A ref \in referrals :
    \/ \E p \in Procs : /\ cpc[p] = "committed"
                         /\ Get(cloc[p].result).referral.id = ref.id
    \/ \E r \in responses : r.status = 201 /\ r.referralId = ref.id /\ ~r.alreadyProcessed

\* C13: the delivery row of a referral.claimed event is written only after
\* the claim transaction committed the event, and the enqueue, failing or
\* not, leaves the 201 first-time success and the committed referral, ledger
\* and event rows as they are.
C13_EnqueueAfterCommitNeverChangesOutcome ==
  /\ []CommittedClaimAnswered201
  /\ [][DeliveryOnlyAfterCommit /\ EnqueueLeavesClaimAlone /\ CommittedRowsStay]_vars

\* The tenant has a webhook URL, a claim was answered 201, its enqueue is
\* over and failed: no delivery row names the claim's event.
C13_EnqueueFailedClaimStands ==
  /\ pendingEnqueue = {}
  /\ \A t \in Tenants : IsSome(tenants[t].webhookUrl)
  /\ \E r \in responses : \E ref \in referrals : \E e \in events :
       /\ r.status = 201 /\ r.referralId = ref.id
       /\ e.type = "referral.claimed" /\ e.payload.referralId = ref.id
       /\ rewardsLedger # {}
       /\ \A d \in webhookDeliveries : d.eventId # e.id

(***************************************************************************)
(* C14.  Delivery outcomes leave the claim's committed state alone.        *)
(***************************************************************************)
\* C14: no step of a dispatcher instance (success, failure, exhaustion,
\* missing event, rejected database call) and no replay or test trigger
\* creates, changes or removes a referral, user or reward ledger row.
C14_DeliveryLeavesClaimStateUnchanged ==
  [][UNCHANGED <<referrals, users, rewardsLedger>>]_vars

\* A delivery was exhausted and the call that recorded it was cut short by
\* a rejected insert of its event; a trigger's row was delivered; the
\* claim's rows are the committed ones.
C14_OutcomesOfEveryKindSeen ==
  /\ \E d \in webhookDeliveries :
       /\ Exhausted(d)
       /\ \A w \in Workers : \A job \in wjobs[w] : job.delivery.id # d.id
       /\ \A e \in events : e.type # "webhook.exhausted"
  /\ \E n \in webhookDeliveries : n.status = "success"
  /\ Len(replays) = 1 /\ replays[1].status = 201
  /\ referrals = {ClaimedReferral}
  /\ rewardsLedger = InsertRewards({}, "tA", ClaimedRewards)

(***************************************************************************)
(* C15.  The claim transaction is all-or-nothing.                          *)
(***************************************************************************)
ClaimedEventsOf(ref) ==
  {e \in events : e.type = "referral.claimed" /\ e.tenantId = ref.tenantId
                  /\ e.payload.referralId = ref.id}

\* The ledger holds the entry of each side whose evaluated amount is positive.
HasItsLedgerEntries(ref) ==
  LET rules == normalizeRewardRules(tenants[ref.tenantId].referralSettingsJson)
      referrer == Get(getUserById(users, ref.referrerUserId))
      referrerAmount == getRewardAmountForTier(rules, normalizeSubscriptionTier(referrer.plan))
  IN  /\ referrerAmount > 0 =>
           \E l \in rewardsLedger :
             /\ l.tenantId = ref.tenantId /\ l.userId = ref.referrerUserId
             /\ l.eventId = generateReferralEventId(ref.id, ref.referrerUserId)
             /\ l.amount = referrerAmount
      /\ rules.onboarding_bonus > 0 =>
           \E l \in rewardsLedger :
             /\ l.tenantId = ref.tenantId /\ l.userId = ref.referredUserId
             /\ l.eventId = generateOnboardingEventId(ref.id, ref.referredUserId)
             /\ l.amount = rules.onboarding_bonus

\* Every referral has exactly one referral.claimed event and its ledger
\* entries, its users exist, and no such event or ledger entry is without
\* its referral.
ReferralsAreWhole ==
  /\ \A ref \in referrals :
       /\ Cardinality(ClaimedEventsOf(ref)) = 1
       /\ IsSome(getUserById(users, ref.referrerUserId))
       /\ IsSome(getUserById(users, ref.referredUserId))
       /\ HasItsLedgerEntries(ref)
  /\ \A e \in events :
       e.type = "referral.claimed" => \E ref \in referrals : e \in ClaimedEventsOf(ref)
  /\ \A l \in rewardsLedger :
       \E ref \in referrals :
         l.eventId \in {generateReferralEventId(ref.id, ref.referrerUserId),
                        generateOnboardingEventId(ref.id, ref.referredUserId)}

\* A transaction that ends without committing leaves the four tables as
\* they were.
AbortLeavesNoRow ==
  \A p \in Procs :
    cpc[p] = "transaction" /\ cpc'[p] = "idle" =>
      UNCHANGED <<referrals, users, rewardsLedger, events>>

\* C15: each referral row has exactly one referral.claimed event naming it
\* and the ledger entry of every side with a positive amount, and a claim
\* transaction that aborts or throws leaves no referral, user, ledger or
\* event row behind.
C15_ClaimTransactionAllOrNothing == []ReferralsAreWhole /\ [][AbortLeavesNoRow]_vars

\* One claim committed with both sides rewarded and another was aborted.
C15_OneCommittedOneAborted ==
  /\ \E ref \in referrals :
       Cardinality({l \in rewardsLedger : l.eventId[2] = ref.id}) = 2
  /\ \E r \in responses : r.status = 500 /\ r.code = "INTERNAL"

(***************************************************************************)
(* C16.  What a replay writes.                                             *)
(***************************************************************************)
\* The step is a replay answered 201.
ReplayAccepted ==
  /\ Len(replays') = Len(replays) + 1
  /\ replays'[Len(replays')].route = "replay"
  /\ replays'[Len(replays')].status = 201

\* The step adds exactly one row, new by id, pending, unattempted, due now,
\* for the replayed event of the tenant, and leaves every other row as is.
ReplayAddsOneFreshRow ==
  \E n \in webhookDeliveries' :
    /\ webhookDeliveries' = webhookDeliveries \cup {n}
    /\ \A d \in webhookDeliveries : d.id # n.id
    /\ n.status = "pending" /\ n.attemptCount = 0 /\ n.nextAttemptAt = Some(now)
    /\ n.tenantId = replays'[Len(replays')].tenantId
    /\ Some(n.eventId) = replays'[Len(replays')].eventId
    /\ Some(n.id) = replays'[Len(replays')].deliveryId

\* The new row goes to the destination of the event's earlier deliveries.
ReplayKeepsDestination ==
  \A n \in webhookDeliveries' \ webhookDeliveries : \A d \in webhookDeliveries :
    d.tenantId = n.tenantId /\ d.eventId = n.eventId => n.url = d.url

\* C16: a replay of event E for tenant T inserts one brand-new delivery row
\* with attempt_count 0, status pending and next_attempt_at = now, for the
\* same event id and the same destination URL as the event's earlier
\* delivery, and changes no field of any existing delivery row.
C16_ReplayInsertsOneFreshRow ==
  [][ReplayAccepted => ReplayAddsOneFreshRow /\ ReplayKeepsDestination]_vars

\* The part of C16 that does not concern the destination.
C16_ReplayRowIsFresh == [][ReplayAccepted => ReplayAddsOneFreshRow]_vars

(***************************************************************************)
(* C17.  The triggers' failures.                                           *)
(***************************************************************************)
\* The step is a trigger request being answered.
TriggerAnswered == Len(replays') = Len(replays) + 1

\* The answer matches the request: a replay of an event the tenant does not
\* have is 404 EVENT_NOT_FOUND; a replay of an event it has, or a test,
\* without a webhook URL is 400 WEBHOOK_NOT_CONFIGURED; anything else is 201.
TriggerAnswerIsRight ==
  LET answer == replays'[Len(replays')]
      known == answer.route = "replay" =>
                 \E e \in events : e.tenantId = answer.tenantId
                                    /\ Some(e.id) = answer.eventId
      configured == IsSome(tenants[answer.tenantId].webhookUrl)
  IN  IF ~known
        THEN answer.status = 404 /\ answer.code = Some("EVENT_NOT_FOUND")
      ELSE IF ~configured
        THEN answer.status = 400 /\ answer.code = Some("WEBHOOK_NOT_CONFIGURED")
      ELSE answer.status = 201 /\ answer.code = None

\* A trigger that fails writes no delivery row and no event.
FailedTriggerWritesNothing ==
  replays'[Len(replays')].status # 201 => UNCHANGED <<webhookDeliveries, events>>

EvaluatedAmounts(ref) ==
  LET rules == normalizeRewardRules(tenants[ref.tenantId].referralSettingsJson)
      referrer == Get(getUserById(users, ref.referrerUserId))
  IN  [referrer |-> getRewardAmountForTier(rules, normalizeSubscriptionTier(referrer.plan)),
       referred |-> rules.onboarding_bonus]

ReferrerEntries(ref) ==
  {l \in rewardsLedger : l.tenantId = ref.tenantId
                         /\ l.eventId = generateReferralEventId(ref.id, ref.referrerUserId)}

ReferredEntries(ref) ==
  {l \in rewardsLedger : l.tenantId = ref.tenantId
                         /\ l.eventId = generateOnboardingEventId(ref.id, ref.referredUserId)}

\* C18: no ledger entry has amount zero; for each side of a claim a ledger
\* entry exists, and the first-time answer carries a non-null reward, if and
\* only if the evaluated amount of that side is greater than zero.
C18_ZeroAmountsSuppressed ==
  /\ \A l \in rewardsLedger : l.amount > 0
  /\ \A ref \in referrals :
       /\ ReferrerEntries(ref) # {} <=> EvaluatedAmounts(ref).referrer > 0
       /\ ReferredEntries(ref) # {} <=> EvaluatedAmounts(ref).referred > 0
       /\ \A r \in responses :
            r.status = 201 /\ r.referralId = ref.id =>
              /\ IsSome(r.referrerReward) <=> EvaluatedAmounts(ref).referrer > 0
              /\ IsSome(r.referredReward) <=> EvaluatedAmounts(ref).referred > 0

\* A claim whose two sides both evaluate to zero was answered 201 with null
\* rewards and the ledger is empty.
C18_ClaimWithoutRewards ==
  \E ref \in referrals : \E r \in responses :
    /\ r.status = 201 /\ r.referralId = ref.id
    /\ EvaluatedAmounts(ref).referrer = 0 /\ EvaluatedAmounts(ref).referred = 0
    /\ r.referrerReward = None /\ r.referredReward = None
    /\ rewardsLedger = {}

(***************************************************************************)
(* C19.  The reward evaluator's defaults.                                  *)
(***************************************************************************)
\* The defaults as stated.
StatedDefaults ==
  [onboarding_bonus |-> 0, referral_reward_free |-> 100, referral_reward_pro |-> 200,
   referral_reward_power_pro |-> 300, currency |-> "AUD"]

\* The amount a key stands for: its number, or its own default when the
\* rules are absent or the key is missing or not a number.
StatedAmount(settings, k) ==
  IF IsSome(settings) /\ k \in DOMAIN Get(settings) /\ Get(settings)[k].num
    THEN Get(settings)[k].v
    ELSE StatedDefaults[k]

\* The currency is stated for rules without one or with a blank one (AUD)
\* and for rules with a code (the code).
CurrencyIsStated(settings) ==
  IsSome(settings) /\ "currency" \in DOMAIN Get(settings) => ~Get(settings)["currency"].num

StatedCurrency(settings) ==
  IF IsSome(settings) /\ "currency" \in DOMAIN Get(settings)
     /\ Get(settings)["currency"].v \notin {"", " "}
    THEN Get(settings)["currency"].v
    ELSE StatedDefaults.currency

\* The tiers the statement names: the three known ones, an unknown one and
\* the empty or null one; the last two are paid as free.
StatedTiers == {"free", "pro", "power_pro", "gold", ""}

StatedTierKey(tier) ==
  CASE tier = "pro" -> "referral_reward_pro"
    [] tier = "power_pro" -> "referral_reward_power_pro"
    [] OTHER -> "referral_reward_free"

StatedReward(amount, currency, reward) ==
  IF amount > 0
    THEN IsSome(reward) /\ Get(reward).amount = amount /\ Get(reward).currency = currency
    ELSE reward = None

\* C19: the evaluation depends on the rules and the tier only; absent rules
\* give 100/200/300 for free/pro/power_pro, no onboarding bonus and AUD;
\* each missing or non-numeric amount falls back to its own default whatever
\* the other fields hold; a missing or blank currency is AUD; an unknown,
\* empty or null tier is paid the free tier's amount.
C19_EvaluatorDefaults ==
  (IsSome(evalCall) /\ Get(evalCall).done) =>
    LET call == Get(evalCall)
        rewards == Get(call.rewards)
    IN  (call.tier \in StatedTiers /\ CurrencyIsStated(call.settings)) =>
          /\ StatedReward(StatedAmount(call.settings, StatedTierKey(call.tier)),
                          StatedCurrency(call.settings), rewards.referrerReward)
          /\ StatedReward(StatedAmount(call.settings, "onboarding_bonus"),
                          StatedCurrency(call.settings), rewards.referredReward)

\* Rules with a non-numeric pro amount, a free amount of their own and a
\* blank currency were evaluated for an unknown tier: the free amount, AUD.
C19_MixedRulesEvaluated ==
  /\ IsSome(evalCall) /\ Get(evalCall).done
  /\ Get(evalCall).tier = "gold"
  /\ IsSome(Get(evalCall).settings)
  /\ Get(Get(evalCall).settings) =
       [referral_reward_free |-> Num(11), referral_reward_pro |-> Str("many"),
        currency |-> Str(" ")]
  /\ Get(Get(Get(evalCall).rewards).referrerReward).amount = 11
  /\ Get(Get(Get(evalCall).rewards).referrerReward).currency = "AUD"
  /\ Get(Get(evalCall).rewards).referredReward = None

(***************************************************************************)
(* C20.  The order of the claim's checks.                                  *)
(***************************************************************************)
\* Every answer to a malformed or over-length request is INVALID_REQUEST.
MalformedAnsweredInvalidRequest ==
  \A r \in responses : ~ValidInput(r.req) => r.status = 400 /\ r.code = "INVALID_REQUEST"

\* No step of the handling of a malformed or over-length request changes a
\* table, the rate-limit counters included.
MalformedTouchesNoRow ==
  \A p \in Procs :
    (Active(p) /\ ~ValidInput(creq[p]) /\ cpc'[p] # cpc[p]) => UNCHANGED dbVars

\* C20: the shape and length check comes before every other check: a
\* malformed or over-length request is answered INVALID_REQUEST even when
\* the caller's IP is over its rate limit, and that answer is produced
\* without any table, rate-limit counters included, having changed.
C20_ShapeCheckComesFirst ==
  []MalformedAnsweredInvalidRequest /\ [][MalformedTouchesNoRow]_vars

(***************************************************************************)
(* C21.  Rate-limited claims.                                              *)
(***************************************************************************)
\* The request at its per-IP check, the counter of the window already at the limit.
OverIpLimit(p) ==
  /\ cpc[p] = "ipRateLimit"
  /\ RateCount(rateLimits, creq[p].tenantId, IpKey(creq[p].ip), now) >= CLAIM_PER_IP

\* The request at its per-referred-user check, that counter already at the limit.
OverUserLimit(p) ==
  /\ cpc[p] = "userRateLimit"
  /\ RateCount(rateLimits, creq[p].tenantId, UserKey(creq[p].referredUserId), now) >= CLAIM_PER_USER

\* The step of a check that finds its limit exceeded answers the request.
RateLimitedAnswer(p) ==
  /\ cpc'[p] = "idle"
  /\ \E r \in responses' :
       /\ responses' = responses \cup {r}
       /\ r.req = creq[p]
       /\ r.status = 429
       /\ r.code = "RATE_LIMITED"
       /\ r.retryAfterSeconds \in 1..60

\* C21: a claim that exceeds the per-IP or the per-referred-user limit is
\* answered 429 RATE_LIMITED with retryAfterSeconds in 1..60 by the check
\* itself, with no referral, user or tenant row looked up for it, and no
\* Referral, User, Reward Ledger, Domain Event or Webhook Delivery row is
\* created.
C21_RateLimitedBeforeLookup ==
  [][\A p \in Procs :
       ((OverIpLimit(p) \/ OverUserLimit(p)) /\ cpc'[p] # cpc[p]) =>
         /\ RateLimitedAnswer(p)
         /\ cloc[p].referrer = None /\ cloc[p].referredUser = None /\ cloc[p].result = None
         /\ UNCHANGED <<users, referrals, rewardsLedger, events, webhookDeliveries, tenants>>]_vars

\* A claim that passed the per-IP check is refused by the per-user limit in
\* the last second of the window.
C21_RefusedByUserLimit ==
  \E r \in responses :
    /\ r.code = "RATE_LIMITED" /\ r.retryAfterSeconds = 1
    /\ ValidInput(r.req)
    /\ RateCount(rateLimits, "tA", UserKey(r.req.referredUserId), now) > CLAIM_PER_USER
    /\ RateCount(rateLimits, "tA", IpKey(r.req.ip), now) <= CLAIM_PER_IP

(***************************************************************************)
(* C22.  Append-only stores.                                               *)
(***************************************************************************)
\* Every row of the three stores is still there, unchanged, after the step.
AppendOnlyStep ==
  /\ referrals \subseteq referrals'
  /\ rewardsLedger \subseteq rewardsLedger'
  /\ events \subseteq events'
  /\ Cardinality({r.id : r \in referrals'}) = Cardinality(referrals')
  /\ Cardinality({l.id : l \in rewardsLedger'}) = Cardinality(rewardsLedger')
  /\ Cardinality({e.id : e \in events'}) = Cardinality(events')

AllReferralsCompleted == \A r \in referrals : r.status = "completed"

\* C22: the Referral, Reward Ledger and Domain Event stores are append-only:
\* no step of a claim, a replay, a test trigger, the dispatcher or a user
\* upsert changes or removes a row of them, and every Referral row has
\* status completed from the moment it exists.
C22_StoresAreAppendOnly ==
  []AllReferralsCompleted /\ [][AppendOnlyStep]_vars

\* A second claim is committed, the referrer's plan was changed by an upsert,
\* a trigger was accepted and the dispatcher recorded an attempt.
C22_EveryOperationRan ==
  /\ Cardinality(referrals) = 2
  /\ Cardinality(rewardsLedger) > Cardinality(InsertRewards({}, "tA", ClaimedRewards))
  /\ \E u \in users : u.externalUserId = "u1" /\ u.plan = "free"
  /\ Len(replays) = 1 /\ replays[1].status = 201
  /\ \E e \in events : e.type \in {"webhook.sent", "webhook.failed"}

(***************************************************************************)
(* C23.  Aborted claim transactions.                                       *)
(***************************************************************************)
\* The transaction of request p ends without a commit while a concurrent
\* transaction has committed since its snapshot.
AbortsOnConflict(p) ==
  /\ cpc[p] = "transaction"
  /\ cpc'[p] = "idle"
  /\ users # cloc[p].snapUsers \/ referrals # cloc[p].snapReferrals

\* The generic error: 500 INTERNAL, no referral and no reward in it.
AnsweredGenericError(p) ==
  \E r \in responses' :
    /\ responses' = responses \cup {r}
    /\ r.req = creq[p]
    /\ r.status = 500 /\ r.code = "INTERNAL"
    /\ r.referralId = 0 /\ r.referrerReward = None /\ r.referredReward = None
    /\ ~r.alreadyProcessed

\* One Referral per referred user, and per Referral one bonus of the
\* referred user at most.
NoSecondReferralOrBonus ==
  /\ \A a, b \in referrals : SameReferredUser(a, b) => a = b
  /\ \A ref \in referrals :
       Cardinality({l \in rewardsLedger : l.tenantId = ref.tenantId
                                          /\ l.userId = ref.referredUserId
                                          /\ l.source = "onboarding_bonus"}) <= 1

\* C23: a claim transaction aborted by a serialization conflict or by the
\* unique index is answered with the generic error 500 INTERNAL, never with
\* a success, it commits nothing, and neither it nor the caller's retry
\* leaves a second Referral or a second bonus for the referred user.
C23_ConflictSurfacesAsGenericError ==
  /\ []NoSecondReferralOrBonus
  /\ [][\A p \in Procs : AbortsOnConflict(p) => (AnsweredGenericError(p) /\ UNCHANGED dbVars)]_vars

\* The loser of a race for the same referred user was answered 500 and sent
\* the claim again; the winner's Referral and the bonus are the only ones.
C23_LoserRetriedAfterAbort ==
  /\ \E r \in responses : r.status = 500 /\ r.racedSame
  /\ retries = 1
  /\ \E r \in responses : r.status = 200 /\ r.alreadyProcessed
  /\ Cardinality(referrals) = 1
  /\ \E l \in rewardsLedger : l.source = "onboarding_bonus"

(***************************************************************************)
(* C24.  Tenant isolation.                                                 *)
(***************************************************************************)
Own(rows, t) == {r \in rows : r.tenantId = t}

\* What tenant t can see of the database and of the answers given.
TenantView(t) ==
  <<Own(users, t), Own(referrals, t), Own(rewardsLedger, t), Own(events, t),
    Own(webhookDeliveries, t), [k \in {x \in DOMAIN rateLimits : x[1] = t} |-> rateLimits[k]],
    tenants[t], {r \in responses : r.req.tenantId = t},
    SelectSeq(replays, LAMBDA a : a.tenantId = t)>>

\* The step belongs to an operation of tenant t.
Acting(t) ==
  \/ \E p \in Procs : cpc'[p] # cpc[p] /\ (creq[p].tenantId = t \/ creq'[p].tenantId = t)
  \/ \E e \in pendingEnqueue \ pendingEnqueue' : e.tenantId = t
  \/ Len(replays') > Len(replays) /\ replays'[Len(replays')].tenantId = t

\* Operations of other tenants leave the tenant's rows and answers as they are.
OthersLeaveTenantAlone ==
  \A t \in AllTenants : ~Acting(t) => UNCHANGED TenantView(t)

\* Every lookup of a request in flight finds what it would find in a
\* database holding the rows of its tenant only.
LookupsAreScoped ==
  \A p \in Procs :
    Active(p) =>
      LET t == creq[p].tenantId
          req == creq[p]
      IN  /\ getReferralByReferredExternalUserId(referrals, t, req.referredUserId)
               = getReferralByReferredExternalUserId(Own(referrals, t), t, req.referredUserId)
          /\ getUserByReferralCode(users, t, req.referralCode)
               = getUserByReferralCode(Own(users, t), t, req.referralCode)
          /\ getUserByExternalId(users, t, req.referredUserId)
               = getUserByExternalId(Own(users, t), t, req.referredUserId)
          /\ IsSome(cloc[p].referrer) =>
               /\ Get(cloc[p].referrer).tenantId = t
               /\ countReferralsByReferrer(referrals, t, Get(cloc[p].referrer).id)
                    = countReferralsByReferrer(Own(referrals, t), t, Get(cloc[p].referrer).id)
          /\ IsSome(cloc[p].referredUser) => Get(cloc[p].referredUser).tenantId = t
          /\ UsersConflict(users, PendingUserRow(p)) = UsersConflict(Own(users, t), PendingUserRow(p))
          /\ MaxReferralsPerReferrer(t) >= 0

\* The cases named: a code held only in another tenant is not found, an
\* idempotent replay answers with a referral of the caller's tenant, a
\* referral joins users of its own tenant, and a delivery row carries the
\* tenant of its event.
NothingCrossesTenants ==
  /\ \A r \in responses :
       /\ (/\ ValidInput(r.req)
           /\ Own({u \in users : u.referralCode = r.req.referralCode}, r.req.tenantId) = {}
           /\ r.status \notin {200, 429})
          => r.status = 404 /\ r.code = "REFERRAL_CODE_NOT_FOUND"
       /\ r.status \in {200, 201} =>
            \E ref \in Own(referrals, r.req.tenantId) :
              ref.id = r.referralId /\ ref.referredExternalUserId = r.req.referredUserId
  /\ \A ref \in referrals :
       \A u \in users : u.id \in {ref.referrerUserId, ref.referredUserId} => u.tenantId = ref.tenantId
  /\ \A l \in rewardsLedger : \A u \in users : u.id = l.userId => u.tenantId = l.tenantId
  /\ \A d \in webhookDeliveries :
       /\ \E e \in events : e.id = d.eventId /\ e.tenantId = d.tenantId
       /\ d.url = Get(tenants[d.tenantId].webhookUrl)
  /\ \A i \in 1..Len(replays) :
       (replays[i].route = "replay" /\ replays[i].status = 201) =>
         \E e \in Own(events, replays[i].tenantId) : Some(e.id) = replays[i].eventId

\* A claim transaction ends without a commit only over rows of its tenant.
AbortsOverOwnRowsOnly ==
  \A p \in Procs :
    (cpc[p] = "transaction" /\ cpc'[p] = "idle") =>
      \/ Own(users, creq[p].tenantId) # Own(cloc[p].snapUsers, creq[p].tenantId)
      \/ Own(referrals, creq[p].tenantId) # Own(cloc[p].snapReferrals, creq[p].tenantId)
      \/ CreateOrFetchReferredUser(p).outcome = "missing"

AbortsCommitNothing ==
  \A p \in Procs :
    (cpc[p] = "transaction" /\ cpc'[p] = "idle") =>
      /\ UNCHANGED dbVars
      /\ \E r \in responses' : /\ responses' = responses \cup {r}
                               /\ r.req = creq[p] /\ r.status = 500 /\ r.code = "INTERNAL"

ReferralOfReferred(req) ==
  {ref \in referrals : ref.tenantId = req.tenantId
                       /\ ref.referredExternalUserId = req.referredUserId}

\* A well-formed, non-rate-limited request whose referred user had a
\* Referral when the request arrived.
IsRepeatForReferredUser(r) ==
  /\ ValidInput(r.req)
  /\ r.status # 429
  /\ r.referredAtStart

RepeatAnsweredWithExistingReferral ==
  \A r \in responses :
    IsRepeatForReferredUser(r) =>
      /\ r.status = 200
      /\ r.alreadyProcessed
      /\ r.referrerReward = None /\ r.referredReward = None
      /\ \E ref \in ReferralOfReferred(r.req) : ref.id = r.referralId

RepeatWritesNoRow ==
  \A p \in Procs :
    (Active(p) /\ cloc[p].referredAtStart /\ cpc'[p] # cpc[p]) =>
      UNCHANGED <<users, referrals, rewardsLedger, events>>

UserRowsOf(us, tenantId, externalUserId) ==
  {u \in us : u.tenantId = tenantId /\ u.externalUserId = externalUserId}

\* Every Referral points to the one User row of its referred user.
ReferralPointsToItsUser ==
  \A ref \in referrals :
    /\ Cardinality(UserRowsOf(users, ref.tenantId, ref.referredExternalUserId)) = 1
    /\ \A u \in UserRowsOf(users, ref.tenantId, ref.referredExternalUserId) :
         u.id = ref.referredUserId

\* The atomic phase of request p runs with no User row for its referred
\* user and no commit of another transaction since its snapshot.
CreatesReferredUser(p) ==
  /\ cpc[p] = "transaction"
  /\ cpc'[p] # cpc[p]
  /\ cloc[p].referredUser = None
  /\ UserRowsOf(users, creq[p].tenantId, creq[p].referredUserId) = {}
  /\ users = cloc[p].snapUsers
  /\ referrals = cloc[p].snapReferrals

\* C26: in the atomic phase of a first-time claim with no User row for
\* (tenant, referredExternalUserId), create-or-fetch ends with exactly one
\* User row for the pair and the new Referral pointing to it, and it never
\* fails the claim, whatever the referred id and the users that exist.
C26_CreateOrFetchNeverFails ==
  /\ []ReferralPointsToItsUser
  /\ [][\A p \in Procs :
          CreatesReferredUser(p) =>
            /\ cpc'[p] = "committed"
            /\ Cardinality(UserRowsOf(users', creq[p].tenantId, creq[p].referredUserId)) = 1
            /\ \E ref \in referrals' \ referrals :
                 /\ ref.referredExternalUserId = creq[p].referredUserId
                 /\ \E u \in users' \ users : u.id = ref.referredUserId]_vars

(***************************************************************************)
(* C27.  The per-referrer cap.                                             *)
(***************************************************************************)
\* No referrer has more Referral rows than the tenant's cap, when it has one.
CapNeverExceeded ==
  \A t \in Tenants :
    MaxReferralsPerReferrer(t) > 0 =>
      \A u \in users :
        countReferralsByReferrer(referrals, t, u.id) <= MaxReferralsPerReferrer(t)

\* The claim that reaches the cap check with its referrer at the cap is
\* refused and writes nothing.
RefusedAtCap ==
  \A p \in Procs :
    (/\ cpc[p] = "cap"
     /\ cpc'[p] # cpc[p]
     /\ MaxReferralsPerReferrer(creq[p].tenantId) > 0
     /\ countReferralsByReferrer(referrals, creq[p].tenantId, Get(cloc[p].referrer).id)
          >= MaxReferralsPerReferrer(creq[p].tenantId))
    => /\ UNCHANGED dbVars
       /\ \E r \in responses' : /\ responses' = responses \cup {r}
                                /\ r.req = creq[p]
                                /\ r.status = 400 /\ r.code = "REFERRAL_CAP_REACHED"

\* C27: with maxReferralsPerReferrer = M > 0, a claim for a referrer who has
\* M Referrals fails with REFERRAL_CAP_REACHED and creates no row, and after
\* any interleaving of concurrent claims for different referred users no
\* referrer has more than M Referral rows.
C27_CapHoldsUnderConcurrency ==
  []CapNeverExceeded /\ [][RefusedAtCap]_vars

(***************************************************************************)
(* C28.  One dispatcher instance: the attempts of a row, one after another.*)
(***************************************************************************)
RowOf(deliveryId) == CHOOSE d \in webhookDeliveries : d.id = deliveryId

\* The rows whose HTTP attempt starts in this step.
AttemptStarts == {id \in DOMAIN posts' : posts'[id] = PostCount(id) + 1}

\* Every earlier attempt of the row has its outcome in the row: the row
\* counts them all, is still pending and due, and is what the poll read.
EarlierOutcomesRecorded(deliveryId) ==
  LET row == RowOf(deliveryId)
      hand == {job \in wjobs[TheInstance] : job.delivery.id = deliveryId}
  IN  /\ row.status = "pending"
      /\ row.attemptCount = PostCount(deliveryId)
      /\ IsSome(row.nextAttemptAt) /\ Get(row.nextAttemptAt) <= now
      /\ Cardinality(hand) = 1
      /\ \A job \in hand : job.delivery.attemptCount = row.attemptCount
      /\ \A d \in wbatch[TheInstance] : d.id # deliveryId

\* A fetched batch holds a row once, and never a row that is in flight.
RowOnceInBatch ==
  /\ \A a, b \in wbatch[TheInstance] : a.id = b.id => a = b
  /\ \A a, b \in wjobs[TheInstance] : a.delivery.id = b.delivery.id => a = b
  /\ \A a \in wbatch[TheInstance] : \A j \in wjobs[TheInstance] : a.id # j.delivery.id

InFlightBounded == \A w \in Workers : Cardinality(wjobs[w]) <= CONCURRENCY

\* A call of processDelivery ends in this step with nothing written: it threw.
ThrewIn(job) ==
  /\ job \in wjobs[TheInstance]
  /\ job \notin wjobs'[TheInstance]
  /\ \A j \in wjobs'[TheInstance] : j.delivery.id # job.delivery.id
  /\ UNCHANGED dbVars

\* The exception of one delivery touches no other delivery and not the loop.
ExceptionStaysInItsDelivery ==
  \A job \in wjobs[TheInstance] :
    ThrewIn(job) => /\ wjobs'[TheInstance] = wjobs[TheInstance] \ {job}
                    /\ wbatch' = wbatch
                    /\ wpc' = wpc

\* A fetched row leaves the batch only by being attempted.
EveryFetchedRowAttempted ==
  \A d \in wbatch[TheInstance] \ wbatch'[TheInstance] :
    \E job \in wjobs'[TheInstance] : job.delivery = d /\ job.pc = "event"

\* The loop goes on: it never stops, and a failed poll leads to the next one.
LoopGoesOn ==
  /\ wpc'[TheInstance] # "stopped"
  /\ (wpc[TheInstance] = "poll" /\ wpc'[TheInstance] # "poll")
       => wpc'[TheInstance] \in {"process", "sleep"}

NoNewBatchAfterSignal ==
  isShuttingDown[TheInstance] => wbatch'[TheInstance] \subseteq wbatch[TheInstance]

\* The rows of the fetched batch are all processed: a row leaves the batch
\* only to be attempted, an attempt that started ends with its outcome in
\* the row, and the loop exits with nothing fetched left over.
FetchedBatchFinished ==
  /\ \A d \in wbatch[TheInstance] \ wbatch'[TheInstance] :
        \E job \in wjobs'[TheInstance] : job.delivery = d
  /\ \A job \in wjobs[TheInstance] :
        (job.pc = "update" /\ job \notin wjobs'[TheInstance])
          => RowOf(job.delivery.id)'.attemptCount = job.delivery.attemptCount + 1
  /\ wpc'[TheInstance] = "stopped"
       => wbatch'[TheInstance] = {} /\ wjobs'[TheInstance] = {}

\* C30: after a shutdown signal (SIGTERM or SIGINT) the dispatcher loop
\* starts no new batch, and every delivery of the batch already fetched
\* when the signal arrived is still processed to a recorded outcome before
\* the loop exits.
C30_ShutdownFinishesFetchedBatch ==
  [][NoNewBatchAfterSignal /\ FetchedBatchFinished]_vars

(***************************************************************************)
(* C31.  The event that goes with a recorded outcome.                      *)
(***************************************************************************)
OutcomeEventFor(d, type) ==
  \E e \in events : /\ e.type = type
                     /\ e.tenantId = d.tenantId
                     /\ e.payload.deliveryId = d.id

\* The call that wrote the row's outcome has not returned yet.
OutcomeEventPending(d) ==
  \E w \in Workers : \E job \in wjobs[w] :
    job.delivery.id = d.id /\ job.pc = "insertEvent"

\* C31: every recorded delivery outcome appends its matching Domain Event,
\* so that, once the call that recorded it is over, each row in status
\* success has a webhook.sent event naming it and each row failed at the
\* ceiling has a webhook.exhausted event naming it.
C31_OutcomeHasItsEvent ==
  \A d \in webhookDeliveries :
    ~OutcomeEventPending(d) =>
      /\ d.status = "success" => OutcomeEventFor(d, "webhook.sent")
      /\ (d.status = "failed" /\ d.attemptCount >= WEBHOOK_RETRY_LIMIT)
           => OutcomeEventFor(d, "webhook.exhausted")

(***************************************************************************)
(* C32.  Bounded retries, counted in the row.                              *)
(***************************************************************************)
\* A POST was sent for the row and its outcome is not in the row yet.
AttemptUnrecorded(d) ==
  \E w \in Workers : \E job \in wjobs[w] :
    job.delivery.id = d.id /\ job.pc = "update"

\* C32: for every delivery row the number of HTTP POSTs sent for it, by
\* any number of dispatcher instances, never exceeds WEBHOOK_RETRY_LIMIT,
\* and attempt_count equals the number of attempts made for the row.
C32_AttemptsBoundedAndCounted ==
  \A d \in webhookDeliveries :
    /\ PostCount(d.id) <= WEBHOOK_RETRY_LIMIT
    /\ ~AttemptUnrecorded(d) => d.attemptCount = PostCount(d.id)

(***************************************************************************)
(* C33.  Every delivery reaches a terminal status.                         *)
(***************************************************************************)
Terminal(d) == d.status \in {"success", "failed"}

\* C33: under a dispatcher that keeps running and HTTP calls that always
\* return or time out, every Webhook Delivery row eventually reaches a
\* terminal status (success or failed); no row stays pending forever.
C33_EveryRowReachesTerminalStatus ==
  <>[](\A d \in webhookDeliveries : Terminal(d))

\* One row has failed at the ceiling and the other has succeeded at its
\* last but one attempt.
C33_OneExhaustedOneDelivered ==
  /\ RowOf(1).status = "failed" /\ RowOf(1).attemptCount = WEBHOOK_RETRY_LIMIT
  /\ RowOf(2).status = "success" /\ RowOf(2).attemptCount = 5

(***************************************************************************)
(* C34.  From the committed claim to its delivery row.                     *)
(***************************************************************************)
DeliveriesOf(e) ==
  {d \in webhookDeliveries : d.tenantId = e.tenantId /\ d.eventId = e.id}

ClaimedEvents == {e \in events : e.type = "referral.claimed"}

\* The committed claims of tenants with a webhook URL that have no delivery row.
AwaitingDelivery ==
  {e \in ClaimedEvents : IsSome(tenants[e.tenantId].webhookUrl) /\ DeliveriesOf(e) = {}}

\* The claim path writes one row per claim at most, due at once, and none
\* for a tenant without a webhook URL.
OneRowPerClaimAtMost ==
  \A e \in ClaimedEvents :
    /\ Cardinality(DeliveriesOf(e)) <= 1
    /\ ~IsSome(tenants[e.tenantId].webhookUrl) => DeliveriesOf(e) = {}
    /\ \A d \in DeliveriesOf(e) : d.status = "pending" /\ IsSome(d.nextAttemptAt)

EnqueueOutstanding(e) ==
  \/ \E q \in pendingEnqueue : q.tenantId = e.tenantId /\ q.eventId = e.id
  \/ \E p \in Procs : /\ cpc[p] = "committed"
                       /\ creq[p].tenantId = e.tenantId
                       /\ Get(cloc[p].result).eventId = e.id

RefusedNow(p) ==
  /\ cpc'[p] = "idle"
  /\ \E r \in responses' : /\ responses' = responses \cup {r}
                           /\ r.req = creq[p]
                           /\ r.code = "RATE_LIMITED"

\* The step of request p goes on to the handler's next step, or is answered
\* with something other than RATE_LIMITED.
AllowedNow(p) ==
  \/ cpc'[p] # "idle"
  \/ \E r \in responses' : /\ responses' = responses \cup {r}
                            /\ r.req = creq[p]
                            /\ r.code # "RATE_LIMITED"

\* A call of checkRateLimit on the key takes the next number of the key's
\* window and is allowed when that number is within the limit, refused
\* when it is beyond it.
CountsAndDecides(p, key, limit) ==
  LET before == RateCount(rateLimits, creq[p].tenantId, key, now)
      after == RateCount(rateLimits', creq[p].tenantId, key, now)
  IN  /\ after = before + 1
      /\ after > limit => RefusedNow(p)
      /\ after <= limit => AllowedNow(p)

\* No step lowers or removes a counter of a window.
CountersOnlyGrow ==
  \A k \in DOMAIN rateLimits : k \in DOMAIN rateLimits' /\ rateLimits'[k] >= rateLimits[k]

\* C35: for every rate-limit key and one-minute window, under any
\* interleaving of concurrent requests, at most limit calls of
\* checkRateLimit are allowed (20 per IP and 10 per referred user for
\* claims) and every further call of the window is refused: each call
\* takes the next number of the window's counter, which never goes down,
\* and is allowed exactly when its number is within the limit.
C35_AtMostLimitCallsAllowed ==
  [][/\ CountersOnlyGrow
     /\ \A p \in Procs :
          /\ (cpc[p] = "ipRateLimit" /\ cpc'[p] # cpc[p])
               => CountsAndDecides(p, IpKey(creq[p].ip), CLAIM_PER_IP)
          /\ (cpc[p] = "userRateLimit" /\ cpc'[p] # cpc[p])
               => CountsAndDecides(p, UserKey(creq[p].referredUserId), CLAIM_PER_USER)]_vars

\* Two concurrent requests of one IP met the counter one below the limit:
\* one took the last allowed number and went on to the per-user check, the
\* other was refused.
C35_LastAllowedAndFirstRefused ==
  /\ RateCount(rateLimits, "tA", IpKey("ip1"), now) = CLAIM_PER_IP + 1
  /\ \E key \in {UserKey("u2"), UserKey("u3")} : RateCount(rateLimits, "tA", key, now) = 1
  /\ \E r \in responses : r.code = "RATE_LIMITED" /\ r.req.ip = "ip1"

(***************************************************************************)
(* C36.  The per-IP counter of unknown referral codes.                     *)
(***************************************************************************)
\* The claim of p fails on an unknown code in this step.
FailsOnUnknownCode(p) == cpc[p] = "invalidRef" /\ cpc'[p] # cpc[p]

\* C36: a claim that fails on an unknown referral code raises the per-IP
\* invalid-code counter of the window by exactly one, and is answered
\* REFERRAL_CODE_NOT_FOUND while that count is within INVALID_REF_PER_IP,
\* RATE_LIMITED only beyond it (from the 6th such claim on).
C36_UnknownCodeCountedOnce ==
  [][\A p \in Procs :
       FailsOnUnknownCode(p) =>
         LET key == InvalidRefKey(creq[p].ip)
             before == RateCount(rateLimits, creq[p].tenantId, key, now)
             after == RateCount(rateLimits', creq[p].tenantId, key, now)
         IN  /\ after = before + 1
             /\ RefusedNow(p) <=> before >= INVALID_REF_PER_IP]_vars

(***************************************************************************)
(* C37.  A failing counter store lets the claim through.                   *)
(***************************************************************************)
\* The rate-limit call of p's step wrote nothing: the counter store failed.
StoreFailedFor(p) ==
  /\ cpc[p] \in {"ipRateLimit", "userRateLimit", "invalidRef"}
  /\ cpc'[p] # cpc[p]
  /\ rateLimits' = rateLimits

AnsweredNow(p, status, code) ==
  /\ cpc'[p] = "idle"
  /\ \E r \in responses' : /\ responses' = responses \cup {r}
                           /\ r.req = creq[p]
                           /\ r.status = status /\ r.code = code
                           /\ r.retryAfterSeconds = 0

\* What the handler does after an allowed rate-limit call.
GoesOnAsUnderLimit(p) ==
  CASE cpc[p] = "ipRateLimit" ->
         IF ValidInput(creq[p])
           THEN cpc'[p] = "userRateLimit" /\ responses' = responses
           ELSE AnsweredNow(p, 400, "INVALID_REQUEST")
    [] cpc[p] = "userRateLimit" -> cpc'[p] = "existingReferral" /\ responses' = responses
    [] cpc[p] = "invalidRef" -> AnsweredNow(p, 404, "REFERRAL_CODE_NOT_FOUND")

\* C37: when the counter store fails, checkRateLimit fails open (allowed,
\* retryAfterSeconds 0): the claim goes on to validation and processing as
\* if it were under the limit, and the failure produces neither
\* RATE_LIMITED nor an internal error.
C37_CounterStoreFailureFailsOpen ==
  [][\A p \in Procs :
       StoreFailedFor(p) =>
         /\ GoesOnAsUnderLimit(p)
         /\ UNCHANGED <<users, referrals, rewardsLedger, events, webhookDeliveries, tenants>>]_vars

\* The per-IP counter stands at its limit, the store failed for a claim of
\* that IP, and the claim was processed to a new referral.
C37_ClaimedPastAFullCounter ==
  /\ RateCount(rateLimits, "tA", IpKey("ip1"), now) = CLAIM_PER_IP
  /\ \E r \in responses : r.status = 201 /\ r.req.ip = "ip1"

(***************************************************************************)
(* C38.  The shape of a Webhook Delivery row.                              *)
(***************************************************************************)
\* C38: every Webhook Delivery row has a status among pending, success and
\* failed, an attempt_count from 0 to WEBHOOK_RETRY_LIMIT, a next_attempt_at
\* exactly when it is pending, and, when pending, an attempt_count below
\* the ceiling.
C38_DeliveryRowWellFormed ==
  \A d \in webhookDeliveries :
    /\ d.status \in {"pending", "success", "failed"}
    /\ d.attemptCount \in 0..WEBHOOK_RETRY_LIMIT
    /\ IsSome(d.nextAttemptAt) <=> d.status = "pending"
    /\ d.status = "pending" => d.attemptCount < WEBHOOK_RETRY_LIMIT

\* The first delivery has failed at the ceiling and a replayed one has
\* succeeded at its first attempt.
C38_OneExhaustedOneDelivered ==
  /\ \E d \in webhookDeliveries :
       d.status = "failed" /\ d.attemptCount = WEBHOOK_RETRY_LIMIT /\ d.nextAttemptAt = None
  /\ \E d \in webhookDeliveries :
       d.status = "success" /\ d.attemptCount = 1 /\ d.nextAttemptAt = None

(***************************************************************************)
(* C39.  Where delivery rows come from.                                    *)
(***************************************************************************)
DeliveryIds == {d.id : d \in webhookDeliveries}

DispatcherEventTypes == {"webhook.sent", "webhook.failed", "webhook.exhausted"}

\* A step of a dispatcher instance.
DispatcherStep == <<wpc, wbatch, wjobs, posts>>' # <<wpc, wbatch, wjobs, posts>>

\* A step that adds delivery rows adds one, for the enqueue of a claim or
\* for a replay or test request, and is no step of the dispatcher.
RowsComeFromRequests ==
  /\ DeliveryIds \subseteq DeliveryIds'
  /\ DeliveryIds' # DeliveryIds =>
       /\ Cardinality(DeliveryIds') = Cardinality(DeliveryIds) + 1
       /\ \/ Cardinality(pendingEnqueue') = Cardinality(pendingEnqueue) - 1
          \/ Len(replays') = Len(replays) + 1
       /\ ~DispatcherStep

\* The event the dispatcher appends for an outcome comes without a row.
OutcomeEventsNotEnqueued ==
  \A e \in events' \ events :
    e.type \in DispatcherEventTypes => DeliveryIds' = DeliveryIds /\ pendingEnqueue' = pendingEnqueue

\* C39: the dispatcher never creates Webhook Delivery rows: the
\* webhook.sent, webhook.failed and webhook.exhausted events it appends are
\* not enqueued for delivery, and the number of rows grows only by one per
\* first-time claim, test trigger or replay.
C39_DispatcherCreatesNoDelivery ==
  [][RowsComeFromRequests /\ OutcomeEventsNotEnqueued]_vars

\* The destination failed twice and the queue still holds the one row of
\* the claim.
C39_TwoFailuresOneRow ==
  /\ Cardinality({e \in events : e.type = "webhook.failed"}) = 2
  /\ Cardinality(webhookDeliveries) = 1

(***************************************************************************)
(* C40.  What an attempt sends and what the receiver's check answers.      *)
(***************************************************************************)
\* Each attempt's body is the serialized event row, the same every time.
SameBodyEachAttempt ==
  IsSome(signCall) =>
    \A i \in 1..Len(Get(signCall).sent) :
      /\ Get(signCall).sent[i].body = SerializeEvent(Get(signCall).event)
      /\ \A j \in 1..Len(Get(signCall).sent) :
           Get(signCall).sent[i].body = Get(signCall).sent[j].body

\* Each attempt carries its own timestamp in seconds and the digest of
\* "{timestamp}.{body}".
SignedForItsAttempt ==
  IsSome(signCall) =>
    \A i \in 1..Len(Get(signCall).sent) :
      LET s == Get(signCall).sent[i]
      IN  /\ s.headers.ts = UnixSeconds(s.at)
          /\ s.headers.signature =
               HmacSha256Hex(WEBHOOK_SIGNING_SECRET, s.headers.ts \o <<".">> \o s.body)

\* The check answers true for a triple as it was sent and false for a
\* changed one.
VerifyTellsSentFromChanged ==
  (IsSome(signCall) /\ IsSome(Get(signCall).checked)) =>
    LET c == Get(Get(signCall).checked)
    IN  IF c.received = SentTriple(Get(signCall).sent[c.attempt])
          THEN c.result = Some(TRUE)
          ELSE c.result = Some(FALSE)

\* C40: every attempt of a delivery sends the same body, the event row
\* serialized as {id, type, tenantId, timestamp, data}, with the attempt's
\* timestamp and a signature computed over "{timestamp}.{body}";
\* verifyWebhookSignature returns true for the triple that was sent and
\* false for a triple whose body, timestamp or signature was changed.
C40_SignedBodyVerifiesOnlyAsSent ==
  SameBodyEachAttempt /\ SignedForItsAttempt /\ VerifyTellsSentFromChanged

====
